---- MODULE Spec2Model ----
(***************************************************************************)
(* Verification model of the local-search engine of ptbdnr/vrp: the route  *)
(* evaluator (objective, validity), the travel-constraint model            *)
(* (EdgeManager.is_edge_valid) and the neighbourhood operators             *)
(* (TwoOptSwap, ThreeOptSwap) with their improvement searches.             *)
(*                                                                         *)
(* A Node is a record [id, x, y]; a Route is the sequence of its Nodes     *)
(* (Route.sequence); the registry `nodes` is the list of the Nodes added   *)
(* to NodeManager and EdgeManager, in insertion order.  Distances are      *)
(* Euclidean; the registries drawn here are collinear with integer         *)
(* coordinates, so that every distance is an exact integer.                *)
(***************************************************************************)
EXTENDS Integers, Sequences, FiniteSets, TLC

VARIABLES
    nodes,                                   \* NodeManager.nodes / EdgeManager.nodes
    respect_even_to_odd_travel_constraint,   \* EdgeManager toggle
    respect_odd_to_even_travel_constraint,   \* EdgeManager toggle
    l_cache,                                 \* memo of get_l_value (functools.cache)
    route,                                   \* the Route object the caller holds
    call,                                    \* the call in progress / last made
    ret,                                     \* what that call returned
    seed_routes,                             \* LocalSearchImprover.seed_routes
    optimiser,                               \* the locals of LocalSearchImprover.optimise
    log                                      \* the calls optimise made on its collaborators

vars == <<nodes, respect_even_to_odd_travel_constraint,
          respect_odd_to_even_travel_constraint, l_cache, route, call, ret,
          seed_routes, optimiser, log>>

(***************************************************************************)
(* Bounds of the model and constants of the program.                       *)
(***************************************************************************)
MaxNodes == 6          \* largest registry (depots included)
MaxCoord == 2          \* x coordinates lie in 0..MaxCoord (FoldedRegistries)
MaxApplyNodes == 7     \* largest registry of SpecOperator (depots included)
MaxSeeds == 3          \* most seed routes added before optimise (SpecSeed)
MaxIterations == 4     \* the termination policy stops at this iteration count at the latest

MIN_ROUTE_NODES == 2
TWO_OPT_MIN_ROUTE_LENGTH == 4
THREE_OPT_MIN_ROUTE_LENGTH == 6
RANDOM_SEED_VALUE == 42

(***************************************************************************)
(* Sequence helpers (Python list operations).                              *)
(***************************************************************************)
Reversed(s) == [k \in 1..Len(s) |-> s[Len(s) + 1 - k]]

\* s[a:b] with 0-based, end-exclusive Python indices, 0 <= a, b.
Slice(s, a, b) ==
    LET hi == IF b > Len(s) THEN Len(s) ELSE b
    IN  IF a >= hi THEN <<>> ELSE [k \in 1..(hi - a) |-> s[a + k]]

RECURSIVE SeqSum(_)
SeqSum(s) == IF s = <<>> THEN 0 ELSE s[1] + SeqSum(Tail(s))

SeqMax(s) == CHOOSE m \in {s[k] : k \in 1..Len(s)} : \A k \in 1..Len(s) : s[k] <= m
SeqMin(s) == CHOOSE m \in {s[k] : k \in 1..Len(s)} : \A k \in 1..Len(s) : m <= s[k]

\* sorted(list of ints)
Sorted(s) == SortSeq(s, LAMBDA a, b : a < b)

Ids(r) == [k \in 1..Len(r) |-> r[k].id]

(***************************************************************************)
(* EuclidianDistanceManager.get_distance and NodeManager.all_node_ids.     *)
(***************************************************************************)
ISqrt(k) == CHOOSE r \in 0..k : r * r <= k /\ (r + 1) * (r + 1) > k

get_distance(a, b) ==
    ISqrt((a.x - b.x) * (a.x - b.x) + (a.y - b.y) * (a.y - b.y))

all_node_ids(ns) == [k \in 1..Len(ns) |-> ns[k].id]

(***************************************************************************)
(* eval/route_eval.py                                                      *)
(***************************************************************************)
\* variant: n counts the depots too
get_l_value_counting_depots(ns) ==
    LET n == Len(ns)
        pairs == {get_distance(ns[i], ns[j]) :
                     <<i, j>> \in {p \in (1..Len(ns)) \X (1..Len(ns)) : p[1] < p[2]}}
        max_distance_matrix ==
            IF pairs = {} THEN 0
            ELSE CHOOSE m \in pairs : \A d \in pairs : d <= m
    IN  max_distance_matrix * n

\* max over all unordered pairs (0.0 when there is none) times n.
get_l_value(ns) ==
    LET n == Len(ns) - 2
        pairs == {get_distance(ns[i], ns[j]) :
                     <<i, j>> \in {p \in (1..Len(ns)) \X (1..Len(ns)) : p[1] < p[2]}}
        max_distance_matrix ==
            IF pairs = {} THEN 0
            ELSE CHOOSE m \in pairs : \A d \in pairs : d <= m
    IN  max_distance_matrix * n

\* the list `distances` of total_distance_and_distances
distances_of(r) ==
    IF Len(r) < MIN_ROUTE_NODES THEN <<>>
    ELSE [k \in 1..(Len(r) - 1) |-> get_distance(r[k], r[k + 1])]

total_distance_and_distances(r) ==
    LET distances == distances_of(r)
    IN  IF distances = <<>> THEN <<0, <<>>>> ELSE <<SeqSum(distances), distances>>

\* The memoised L: the cached value when there is one.
cached_l_value(ns, cache) == IF cache # <<>> THEN cache[1] ELSE get_l_value(ns)

\* max()/min() of an empty list raise ValueError: a route of fewer than two
\* points has no objective value.
objective_raises(r) == total_distance_and_distances(r)[2] = <<>>

calculate_objective_value(ns, cache, r) ==
    LET dd == total_distance_and_distances(r)
        d_value == dd[1]
        distances == dd[2]
        max_distance == SeqMax(distances)
        min_distance == SeqMin(distances)
        delta == max_distance - min_distance
        l_value == cached_l_value(ns, cache)
    IN  l_value * delta + d_value

\* the loop over consecutive pairs of is_valid_route, from position k (1-based)
RECURSIVE valid_pairs_from(_, _, _)
valid_pairs_from(r, n, k) ==
    IF k > Len(r) - 1 THEN TRUE
    ELSE LET current_id == r[k].id
             next_id == r[k + 1].id
             expected_start_id == 0
             expected_end_id == n + 1
         IN  IF current_id = expected_start_id \/ current_id = expected_end_id
               THEN valid_pairs_from(r, n, k + 1)
             ELSE IF next_id = expected_start_id \/ next_id = expected_end_id
               THEN valid_pairs_from(r, n, k + 1)
             ELSE IF current_id % 2 = 0 /\ next_id % 2 = 1 /\ 2 * current_id < n
               THEN FALSE
             ELSE IF current_id % 2 = 1 /\ next_id % 2 = 0 /\ 2 * current_id >= n
               THEN FALSE
             ELSE valid_pairs_from(r, n, k + 1)

\* variant: the intermediates are only counted and range-checked, so a duplicate
\* is not noticed
is_valid_route_counting_intermediates(ns, r) ==
    LET n == Len(all_node_ids(ns)) - 2
        expected_end_id == n + 1
        intermediate_nodes == Ids(Slice(r, 1, Len(r) - 1))
    IN  IF Len(r) < MIN_ROUTE_NODES THEN FALSE
        ELSE IF r[1].id # 0 THEN FALSE
        ELSE IF r[Len(r)].id # expected_end_id THEN FALSE
        ELSE IF Len(intermediate_nodes) # n THEN FALSE
        ELSE IF \E k \in 1..n : intermediate_nodes[k] \notin 1..n THEN FALSE
        ELSE valid_pairs_from(r, n, 1)

is_valid_route(ns, r) ==
    LET n == Len(all_node_ids(ns)) - 2
        expected_end_id == n + 1
        intermediate_nodes == Ids(Slice(r, 1, Len(r) - 1))
        expected_intermediate == [k \in 1..n |-> k]
    IN  IF Len(r) < MIN_ROUTE_NODES THEN FALSE
        ELSE IF r[1].id # 0 THEN FALSE
        ELSE IF r[Len(r)].id # expected_end_id THEN FALSE
        ELSE IF Sorted(intermediate_nodes) # Sorted(expected_intermediate) THEN FALSE
        ELSE valid_pairs_from(r, n, 1)

(***************************************************************************)
(* bounds/lower_bound.py                                                   *)
(***************************************************************************)
\* min_distance * n * (max_distance + 1) over all unordered pairs of points, n
\* counting the depots; with fewer than two points min_distance stays
\* float("inf") and the product is inf (one point) or nan (no point)
calculate_lower_bound(ns) ==
    LET node_ids == all_node_ids(ns)
        n == Len(node_ids)
        pairs == {get_distance(ns[i], ns[j]) :
                     <<i, j>> \in {p \in (1..n) \X (1..n) : p[1] < p[2]}}
        max_distance == CHOOSE m \in pairs : \A d \in pairs : d <= m
        min_distance == CHOOSE m \in pairs : \A d \in pairs : m <= d
    IN  IF pairs = {} THEN (IF n = 0 THEN "nan" ELSE "inf")
        ELSE min_distance * n * (max_distance + 1)

(***************************************************************************)
(* datastore/edge_manager.py                                               *)
(***************************************************************************)
is_edge_valid(ns, e2o, o2e, node_from, node_to) ==
    LET n == Len(ns)
    IN  IF node_from.id = 0 \/ node_to.id = 0 THEN TRUE
        ELSE IF node_from.id = Len(ns) - 1 THEN node_to.id = 0
        ELSE IF e2o /\ node_from.id % 2 = 0 /\ node_to.id % 2 = 1
                    /\ 2 * node_from.id < n
          THEN FALSE
        ELSE IF o2e /\ node_from.id % 2 = 1 /\ node_to.id % 2 = 0
                    /\ 2 * node_from.id >= n
          THEN FALSE
        ELSE TRUE

\* an optional argument: left out (None), or given with a value
Omitted == [is_none |-> TRUE, value |-> <<>>]
Given(v) == [is_none |-> FALSE, value |-> v]

\* list.remove(e): the list without the first occurrence of e
RECURSIVE list_remove(_, _)
list_remove(s, e) ==
    IF s = <<>> THEN <<>>
    ELSE IF s[1] = e THEN Tail(s)
    ELSE <<s[1]>> \o list_remove(Tail(s), e)

\* [n for n in s if self.is_edge_valid(node_from, n)]
RECURSIVE valid_neighbours_of(_, _, _, _, _)
valid_neighbours_of(ns, e2o, o2e, node_from, s) ==
    IF s = <<>> THEN <<>>
    ELSE (IF is_edge_valid(ns, e2o, o2e, node_from, s[1]) THEN <<s[1]>> ELSE <<>>)
         \o valid_neighbours_of(ns, e2o, o2e, node_from, Tail(s))

\* variant: farthest first
RECURSIVE sort_by_distance_from_reverse(_, _)
sort_by_distance_from_reverse(node_from, s) ==
    IF s = <<>> THEN <<>>
    ELSE LET rest == sort_by_distance_from_reverse(node_from, SubSeq(s, 1, Len(s) - 1))
             last == s[Len(s)]
             k == Cardinality({ i \in 1..Len(rest) :
                     get_distance(node_from, rest[i]) >= get_distance(node_from, last) })
         IN  SubSeq(rest, 1, k) \o <<last>> \o SubSeq(rest, k + 1, Len(rest))

\* candidates.sort(key=distance from node_from, reverse=False): list.sort is
\* stable, points at the same distance keep their order
RECURSIVE sort_by_distance_from(_, _)
sort_by_distance_from(node_from, s) ==
    IF s = <<>> THEN <<>>
    ELSE LET rest == sort_by_distance_from(node_from, SubSeq(s, 1, Len(s) - 1))
             last == s[Len(s)]
             k == Cardinality({ i \in 1..Len(rest) :
                     get_distance(node_from, rest[i]) <= get_distance(node_from, last) })
         IN  SubSeq(rest, 1, k) \o <<last>> \o SubSeq(rest, k + 1, Len(rest))

\* s[:m]: the first m elements, or all but the last -m when m is negative
slice_to(s, m) ==
    LET stop == IF m >= 0 THEN (IF m < Len(s) THEN m ELSE Len(s))
                ELSE (IF Len(s) + m > 0 THEN Len(s) + m ELSE 0)
    IN  SubSeq(s, 1, stop)

\* EdgeManager.neighbors: the returned list.  `candidates or list(...)` takes
\* all points of the manager when candidates is None and also when it is an
\* empty list (the guard `candidates and len(candidates) == 0` is never true).
neighbors(ns, e2o, o2e, node_id, candidates, max_neighbors, sort_by_distance) ==
    IF node_id \notin {ns[k].id : k \in 1..Len(ns)} THEN <<>>
    ELSE LET node == CHOOSE m \in {ns[k] : k \in 1..Len(ns)} : m.id = node_id
             supplied == IF candidates.is_none \/ candidates.value = <<>>
                           THEN ns ELSE candidates.value
             without_self ==
                 IF \E k \in 1..Len(supplied) : supplied[k] = node
                   THEN list_remove(supplied, node) ELSE supplied
             valid == valid_neighbours_of(ns, e2o, o2e, node, without_self)
             ordered == IF sort_by_distance THEN sort_by_distance_from(node, valid) ELSE valid
         IN  IF without_self = <<>> THEN <<>>
             ELSE IF ~max_neighbors.is_none THEN slice_to(ordered, max_neighbors.value)
             ELSE ordered

(***************************************************************************)
(* optimiser/iterative/operations/two_opt_swap.py                          *)
(***************************************************************************)
\* variant: the kept suffix starts at v2 instead of v2 + 1
TwoOptSwap_apply_suffix_from_v2(r, v1, v2) ==
    LET route_length == Len(r)
        a == IF v1 > v2 THEN v2 ELSE v1
        b == IF v1 > v2 THEN v1 ELSE v2
    IN  IF route_length < TWO_OPT_MIN_ROUTE_LENGTH THEN r
        ELSE IF a < 1 \/ b >= route_length - 1 \/ a >= b THEN r
        ELSE Slice(r, 0, a) \o Reversed(Slice(r, a, b + 1)) \o Slice(r, b, route_length)

\* variant: the half-open segment v1+1..v2 is reversed
TwoOptSwap_apply_open_segment(r, v1, v2) ==
    LET route_length == Len(r)
        a == IF v1 > v2 THEN v2 ELSE v1
        b == IF v1 > v2 THEN v1 ELSE v2
    IN  IF route_length < TWO_OPT_MIN_ROUTE_LENGTH THEN r
        ELSE IF a < 1 \/ b >= route_length - 1 \/ a >= b THEN r
        ELSE Slice(r, 0, a + 1) \o Reversed(Slice(r, a + 1, b + 1))
                 \o Slice(r, b + 1, route_length)

\* apply with explicit v1, v2: the sequence of the returned route.
TwoOptSwap_apply(r, v1, v2) ==
    LET route_length == Len(r)
        a == IF v1 > v2 THEN v2 ELSE v1
        b == IF v1 > v2 THEN v1 ELSE v2
    IN  IF route_length < TWO_OPT_MIN_ROUTE_LENGTH THEN r
        ELSE IF a < 1 \/ b >= route_length - 1 \/ a >= b THEN r
        ELSE Slice(r, 0, a) \o Reversed(Slice(r, a, b + 1)) \o Slice(r, b + 1, route_length)

\* variant: every evaluated candidate replaces the best one
RECURSIVE TwoOptSwap_best_loop_keep_last(_, _, _, _, _, _, _)
TwoOptSwap_best_loop_keep_last(ns, cache, r, only_valid, v1, v2, best) ==
    LET route_length == Len(r)
    IN  IF v1 >= route_length - 2 THEN best
        ELSE IF v2 >= route_length - 1
          THEN TwoOptSwap_best_loop_keep_last(ns, cache, r, only_valid, v1 + 1, v1 + 2, best)
        ELSE LET new_route == TwoOptSwap_apply(r, v1, v2)
             IN  IF only_valid /\ ~is_valid_route(ns, new_route)
                   THEN TwoOptSwap_best_loop_keep_last(ns, cache, r, only_valid, v1, v2 + 1,
                            best)
                 ELSE TwoOptSwap_best_loop_keep_last(ns, cache, r, only_valid, v1, v2 + 1,
                          [route |-> new_route,
                           value |-> calculate_objective_value(ns, cache, new_route)])

\* the two nested loops of apply_best_improvement, resumed at (v1, v2) with
\* best == [route |-> best_route, value |-> best_value]
RECURSIVE TwoOptSwap_best_loop(_, _, _, _, _, _, _)
TwoOptSwap_best_loop(ns, cache, r, only_valid, v1, v2, best) ==
    LET route_length == Len(r)
    IN  IF v1 >= route_length - 2 THEN best
        ELSE IF v2 >= route_length - 1
          THEN TwoOptSwap_best_loop(ns, cache, r, only_valid, v1 + 1, v1 + 2, best)
        ELSE LET new_route == TwoOptSwap_apply(r, v1, v2)
             IN  IF only_valid /\ ~is_valid_route(ns, new_route)
                   THEN TwoOptSwap_best_loop(ns, cache, r, only_valid, v1, v2 + 1, best)
                 ELSE LET new_value == calculate_objective_value(ns, cache, new_route)
                      IN  IF new_value < best.value
                            THEN TwoOptSwap_best_loop(ns, cache, r, only_valid, v1, v2 + 1,
                                     [route |-> new_route, value |-> new_value])
                          ELSE TwoOptSwap_best_loop(ns, cache, r, only_valid, v1, v2 + 1, best)

TwoOptSwap_apply_best_improvement(ns, cache, r, only_valid) ==
    LET memo == <<cached_l_value(ns, cache)>>   \* get_l_value is cached by the first call
    IN  TwoOptSwap_best_loop(ns, memo, r, only_valid, 1, 2,
            [route |-> r, value |-> calculate_objective_value(ns, cache, r)]).route

\* variant: a candidate that equals the input's objective is taken
RECURSIVE TwoOptSwap_first_loop_not_strict(_, _, _, _, _, _, _)
TwoOptSwap_first_loop_not_strict(ns, cache, r, only_valid, v1, v2, curr_value) ==
    LET route_length == Len(r)
    IN  IF v1 >= route_length - 2 THEN r
        ELSE IF v2 >= route_length - 1
          THEN TwoOptSwap_first_loop_not_strict(ns, cache, r, only_valid, v1 + 1, v1 + 2,
                   curr_value)
        ELSE LET new_route == TwoOptSwap_apply(r, v1, v2)
             IN  IF only_valid /\ ~is_valid_route(ns, new_route)
                   THEN TwoOptSwap_first_loop_not_strict(ns, cache, r, only_valid, v1, v2 + 1,
                            curr_value)
                 ELSE IF calculate_objective_value(ns, cache, new_route) <= curr_value
                   THEN new_route
                 ELSE TwoOptSwap_first_loop_not_strict(ns, cache, r, only_valid, v1, v2 + 1,
                          curr_value)

\* the two nested loops of apply_first_improvement, resumed at (v1, v2)
RECURSIVE TwoOptSwap_first_loop(_, _, _, _, _, _, _)
TwoOptSwap_first_loop(ns, cache, r, only_valid, v1, v2, curr_value) ==
    LET route_length == Len(r)
    IN  IF v1 >= route_length - 2 THEN r
        ELSE IF v2 >= route_length - 1
          THEN TwoOptSwap_first_loop(ns, cache, r, only_valid, v1 + 1, v1 + 2, curr_value)
        ELSE LET new_route == TwoOptSwap_apply(r, v1, v2)
             IN  IF only_valid /\ ~is_valid_route(ns, new_route)
                   THEN TwoOptSwap_first_loop(ns, cache, r, only_valid, v1, v2 + 1, curr_value)
                 ELSE IF calculate_objective_value(ns, cache, new_route) < curr_value
                   THEN new_route
                 ELSE TwoOptSwap_first_loop(ns, cache, r, only_valid, v1, v2 + 1, curr_value)

\* variant: candidates are not filtered by is_valid_route
TwoOptSwap_apply_first_improvement_unfiltered(ns, cache, r, only_valid) ==
    LET memo == <<cached_l_value(ns, cache)>>
    IN  TwoOptSwap_first_loop(ns, memo, r, FALSE, 1, 2,
            calculate_objective_value(ns, cache, r))

TwoOptSwap_apply_first_improvement(ns, cache, r, only_valid) ==
    LET memo == <<cached_l_value(ns, cache)>>   \* get_l_value is cached by the first call
    IN  TwoOptSwap_first_loop(ns, memo, r, only_valid, 1, 2,
            calculate_objective_value(ns, cache, r))

(***************************************************************************)
(* optimiser/iterative/operations/three_opt_swap.py                        *)
(***************************************************************************)
\* variant: types 5 and 6 are exchanged
_get_all_reconnections_5_6_exchanged(segment_a, segment_b, segment_c, segment_d) ==
    << segment_a \o segment_b \o segment_c \o segment_d,
       segment_a \o segment_b \o Reversed(segment_c) \o segment_d,
       segment_a \o Reversed(segment_b) \o segment_c \o segment_d,
       segment_a \o segment_c \o segment_b \o segment_d,
       segment_a \o Reversed(segment_b) \o Reversed(segment_c) \o segment_d,
       segment_a \o Reversed(segment_c) \o segment_b \o segment_d,
       segment_a \o segment_c \o Reversed(segment_b) \o segment_d,
       segment_a \o Reversed(segment_c) \o Reversed(segment_b) \o segment_d >>

\* variant: type 4 reverses B only
_get_all_reconnections_4_like_2(segment_a, segment_b, segment_c, segment_d) ==
    << segment_a \o segment_b \o segment_c \o segment_d,
       segment_a \o segment_b \o Reversed(segment_c) \o segment_d,
       segment_a \o Reversed(segment_b) \o segment_c \o segment_d,
       segment_a \o segment_c \o segment_b \o segment_d,
       segment_a \o Reversed(segment_b) \o segment_c \o segment_d,
       segment_a \o segment_c \o Reversed(segment_b) \o segment_d,
       segment_a \o Reversed(segment_c) \o segment_b \o segment_d,
       segment_a \o Reversed(segment_c) \o Reversed(segment_b) \o segment_d >>

_get_all_reconnections(segment_a, segment_b, segment_c, segment_d) ==
    << segment_a \o segment_b \o segment_c \o segment_d,
       segment_a \o segment_b \o Reversed(segment_c) \o segment_d,
       segment_a \o Reversed(segment_b) \o segment_c \o segment_d,
       segment_a \o segment_c \o segment_b \o segment_d,
       segment_a \o Reversed(segment_b) \o Reversed(segment_c) \o segment_d,
       segment_a \o segment_c \o Reversed(segment_b) \o segment_d,
       segment_a \o Reversed(segment_c) \o segment_b \o segment_d,
       segment_a \o Reversed(segment_c) \o Reversed(segment_b) \o segment_d >>

\* apply with explicit v1, v2, v3 and reconnection_type: the returned sequence.
ThreeOptSwap_apply(r, v1, v2, v3, reconnection_type) ==
    LET route_length == Len(r)
        indices == Sorted(<<v1, v2, v3>>)
        s1 == indices[1]
        s2 == indices[2]
        s3 == indices[3]
    IN  IF route_length < THREE_OPT_MIN_ROUTE_LENGTH THEN r
        ELSE IF s1 < 1 \/ s3 >= route_length - 1 \/ ~(s1 < s2 /\ s2 < s3) THEN r
        ELSE IF ~(0 <= reconnection_type /\ reconnection_type <= 7) THEN r
        ELSE _get_all_reconnections(
                 Slice(r, 0, s1), Slice(r, s1, s2), Slice(r, s2, s3),
                 Slice(r, s3, route_length))[reconnection_type + 1]

\* variant: a candidate that ties with the best one replaces it
RECURSIVE ThreeOptSwap_best_loop_last_tie(_, _, _, _, _, _, _, _, _)
ThreeOptSwap_best_loop_last_tie(ns, cache, r, only_valid, v1, v2, v3, t, best) ==
    LET route_length == Len(r)
    IN  IF v1 >= route_length - 4 THEN best
        ELSE IF v2 >= route_length - 2
          THEN ThreeOptSwap_best_loop_last_tie(ns, cache, r, only_valid, v1 + 1, v1 + 2, v1 + 3,
                   1, best)
        ELSE IF v3 >= route_length - 1
          THEN ThreeOptSwap_best_loop_last_tie(ns, cache, r, only_valid, v1, v2 + 1, v2 + 2, 1,
                   best)
        ELSE IF t >= 8
          THEN ThreeOptSwap_best_loop_last_tie(ns, cache, r, only_valid, v1, v2, v3 + 1, 1, best)
        ELSE LET new_route == ThreeOptSwap_apply(r, v1, v2, v3, t)
             IN  IF only_valid /\ ~is_valid_route(ns, new_route)
                   THEN ThreeOptSwap_best_loop_last_tie(ns, cache, r, only_valid, v1, v2, v3,
                            t + 1, best)
                 ELSE LET new_value == calculate_objective_value(ns, cache, new_route)
                      IN  IF new_value <= best.value
                            THEN ThreeOptSwap_best_loop_last_tie(ns, cache, r, only_valid, v1,
                                     v2, v3, t + 1, [route |-> new_route, value |-> new_value])
                          ELSE ThreeOptSwap_best_loop_last_tie(ns, cache, r, only_valid, v1, v2,
                                   v3, t + 1, best)

\* the four nested loops of apply_best_improvement, resumed at (v1, v2, v3, t)
RECURSIVE ThreeOptSwap_best_loop(_, _, _, _, _, _, _, _, _)
ThreeOptSwap_best_loop(ns, cache, r, only_valid, v1, v2, v3, t, best) ==
    LET route_length == Len(r)
    IN  IF v1 >= route_length - 4 THEN best
        ELSE IF v2 >= route_length - 2
          THEN ThreeOptSwap_best_loop(ns, cache, r, only_valid, v1 + 1, v1 + 2, v1 + 3, 1, best)
        ELSE IF v3 >= route_length - 1
          THEN ThreeOptSwap_best_loop(ns, cache, r, only_valid, v1, v2 + 1, v2 + 2, 1, best)
        ELSE IF t >= 8
          THEN ThreeOptSwap_best_loop(ns, cache, r, only_valid, v1, v2, v3 + 1, 1, best)
        ELSE LET new_route == ThreeOptSwap_apply(r, v1, v2, v3, t)
             IN  IF only_valid /\ ~is_valid_route(ns, new_route)
                   THEN ThreeOptSwap_best_loop(ns, cache, r, only_valid, v1, v2, v3, t + 1, best)
                 ELSE LET new_value == calculate_objective_value(ns, cache, new_route)
                      IN  IF new_value < best.value
                            THEN ThreeOptSwap_best_loop(ns, cache, r, only_valid, v1, v2, v3, t + 1,
                                     [route |-> new_route, value |-> new_value])
                          ELSE ThreeOptSwap_best_loop(ns, cache, r, only_valid, v1, v2, v3, t + 1,
                                     best)

ThreeOptSwap_apply_best_improvement(ns, cache, r, only_valid) ==
    LET memo == <<cached_l_value(ns, cache)>>   \* get_l_value is cached by the first call
    IN  ThreeOptSwap_best_loop(ns, memo, r, only_valid, 1, 2, 3, 1,
            [route |-> r, value |-> calculate_objective_value(ns, cache, r)]).route

\* the four nested loops of apply_first_improvement, resumed at (v1, v2, v3, t)
RECURSIVE ThreeOptSwap_first_loop(_, _, _, _, _, _, _, _, _)
ThreeOptSwap_first_loop(ns, cache, r, only_valid, v1, v2, v3, t, curr_value) ==
    LET route_length == Len(r)
    IN  IF v1 >= route_length - 4 THEN r
        ELSE IF v2 >= route_length - 2
          THEN ThreeOptSwap_first_loop(ns, cache, r, only_valid, v1 + 1, v1 + 2, v1 + 3, 1,
                   curr_value)
        ELSE IF v3 >= route_length - 1
          THEN ThreeOptSwap_first_loop(ns, cache, r, only_valid, v1, v2 + 1, v2 + 2, 1,
                   curr_value)
        ELSE IF t >= 8
          THEN ThreeOptSwap_first_loop(ns, cache, r, only_valid, v1, v2, v3 + 1, 1, curr_value)
        ELSE LET new_route == ThreeOptSwap_apply(r, v1, v2, v3, t)
             IN  IF only_valid /\ ~is_valid_route(ns, new_route)
                   THEN ThreeOptSwap_first_loop(ns, cache, r, only_valid, v1, v2, v3, t + 1,
                            curr_value)
                 ELSE IF calculate_objective_value(ns, cache, new_route) < curr_value
                   THEN new_route
                 ELSE ThreeOptSwap_first_loop(ns, cache, r, only_valid, v1, v2, v3, t + 1,
                          curr_value)

ThreeOptSwap_apply_first_improvement(ns, cache, r, only_valid) ==
    LET memo == <<cached_l_value(ns, cache)>>   \* get_l_value is cached by the first call
    IN  ThreeOptSwap_first_loop(ns, memo, r, only_valid, 1, 2, 3, 1,
            calculate_objective_value(ns, cache, r))

(***************************************************************************)
(* Route objects.  A value handed back by an operator is either the        *)
(* caller's Route object itself (ref = "input") or a Route object created  *)
(* by the call (ref = "new"), which owns a list of its own.                *)
(***************************************************************************)
SameRoute(seq) == [ref |-> "input", sequence |-> seq]
NewRoute(seq) == [ref |-> "new", sequence |-> seq]

\* Route.copy(): Route(name=self.name, sequence=self.sequence.copy())
Route_copy(seq) == NewRoute(seq)

\* s[a:b] = vals (slice assignment on the list itself)
SliceAssign(s, a, b, vals) == Slice(s, 0, a) \o vals \o Slice(s, b, Len(s))

\* TwoOptSwap.apply(route, v1, v2, inplace=inplace) on the Route object whose
\* sequence is r: [result |-> the Route returned, route |-> the sequence of the
\* caller's Route afterwards]
TwoOptSwap_apply_object(r, v1, v2, inplace) ==
    LET route_length == Len(r)
        a == IF v1 > v2 THEN v2 ELSE v1
        b == IF v1 > v2 THEN v1 ELSE v2
        unchanged == [result |-> IF inplace THEN SameRoute(r) ELSE Route_copy(r), route |-> r]
    IN  IF route_length < TWO_OPT_MIN_ROUTE_LENGTH THEN unchanged
        ELSE IF a < 1 \/ b >= route_length - 1 \/ a >= b THEN unchanged
        ELSE IF inplace
          THEN LET s == SliceAssign(r, a, b + 1, Reversed(Slice(r, a, b + 1)))
               IN  [result |-> SameRoute(s), route |-> s]
        ELSE [result |-> NewRoute(Slice(r, 0, a) \o Reversed(Slice(r, a, b + 1))
                                      \o Slice(r, b + 1, route_length)),
              route |-> r]

\* variant: the indices are validated in the order supplied, not sorted first
ThreeOptSwap_apply_object_unsorted(r, v1, v2, v3, reconnection_type, inplace) ==
    LET route_length == Len(r)
        unchanged == [result |-> IF inplace THEN SameRoute(r) ELSE Route_copy(r), route |-> r]
    IN  IF route_length < THREE_OPT_MIN_ROUTE_LENGTH THEN unchanged
        ELSE IF v1 < 1 \/ v3 >= route_length - 1 \/ ~(v1 < v2 /\ v2 < v3) THEN unchanged
        ELSE IF ~(0 <= reconnection_type /\ reconnection_type <= 7) THEN unchanged
        ELSE LET new_sequence ==
                     _get_all_reconnections(
                         Slice(r, 0, v1), Slice(r, v1, v2), Slice(r, v2, v3),
                         Slice(r, v3, route_length))[reconnection_type + 1]
             IN  IF inplace THEN [result |-> SameRoute(new_sequence), route |-> new_sequence]
                 ELSE [result |-> NewRoute(new_sequence), route |-> r]

\* variant: the early returns hand back the caller's Route in copy mode too
ThreeOptSwap_apply_object_no_copy(r, v1, v2, v3, reconnection_type, inplace) ==
    LET route_length == Len(r)
        indices == Sorted(<<v1, v2, v3>>)
        s1 == indices[1]
        s2 == indices[2]
        s3 == indices[3]
        unchanged == [result |-> SameRoute(r), route |-> r]
    IN  IF route_length < THREE_OPT_MIN_ROUTE_LENGTH THEN unchanged
        ELSE IF s1 < 1 \/ s3 >= route_length - 1 \/ ~(s1 < s2 /\ s2 < s3) THEN unchanged
        ELSE IF ~(0 <= reconnection_type /\ reconnection_type <= 7) THEN unchanged
        ELSE LET new_sequence ==
                     _get_all_reconnections(
                         Slice(r, 0, s1), Slice(r, s1, s2), Slice(r, s2, s3),
                         Slice(r, s3, route_length))[reconnection_type + 1]
             IN  IF inplace THEN [result |-> SameRoute(new_sequence), route |-> new_sequence]
                 ELSE [result |-> NewRoute(new_sequence), route |-> r]

\* variant: an out-of-range reconnection type is clamped into 0..7
ThreeOptSwap_apply_object_clamped_type(r, v1, v2, v3, reconnection_type, inplace) ==
    LET route_length == Len(r)
        indices == Sorted(<<v1, v2, v3>>)
        s1 == indices[1]
        s2 == indices[2]
        s3 == indices[3]
        t == IF reconnection_type < 0 THEN 0
             ELSE IF reconnection_type > 7 THEN 7 ELSE reconnection_type
        unchanged == [result |-> IF inplace THEN SameRoute(r) ELSE Route_copy(r), route |-> r]
    IN  IF route_length < THREE_OPT_MIN_ROUTE_LENGTH THEN unchanged
        ELSE IF s1 < 1 \/ s3 >= route_length - 1 \/ ~(s1 < s2 /\ s2 < s3) THEN unchanged
        ELSE LET new_sequence ==
                     _get_all_reconnections(
                         Slice(r, 0, s1), Slice(r, s1, s2), Slice(r, s2, s3),
                         Slice(r, s3, route_length))[t + 1]
             IN  IF inplace THEN [result |-> SameRoute(new_sequence), route |-> new_sequence]
                 ELSE [result |-> NewRoute(new_sequence), route |-> r]

\* ThreeOptSwap.apply(route, v1, v2, v3, reconnection_type, inplace=inplace) on
\* the Route object whose sequence is r
ThreeOptSwap_apply_object(r, v1, v2, v3, reconnection_type, inplace) ==
    LET route_length == Len(r)
        indices == Sorted(<<v1, v2, v3>>)
        s1 == indices[1]
        s2 == indices[2]
        s3 == indices[3]
        unchanged == [result |-> IF inplace THEN SameRoute(r) ELSE Route_copy(r), route |-> r]
    IN  IF route_length < THREE_OPT_MIN_ROUTE_LENGTH THEN unchanged
        ELSE IF s1 < 1 \/ s3 >= route_length - 1 \/ ~(s1 < s2 /\ s2 < s3) THEN unchanged
        ELSE IF ~(0 <= reconnection_type /\ reconnection_type <= 7) THEN unchanged
        ELSE LET new_sequence ==
                     _get_all_reconnections(
                         Slice(r, 0, s1), Slice(r, s1, s2), Slice(r, s2, s3),
                         Slice(r, s3, route_length))[reconnection_type + 1]
             IN  IF inplace THEN [result |-> SameRoute(new_sequence), route |-> new_sequence]
                 ELSE [result |-> NewRoute(new_sequence), route |-> r]

(***************************************************************************)
(* optimiser/iterative/local_search.py                                     *)
(***************************************************************************)
\* variant: a seed that ties with the best one replaces it
RECURSIVE best_seed_loop_last_tie(_, _, _, _, _)
best_seed_loop_last_tie(ns, cache, seeds, k, best) ==
    IF k > Len(seeds) THEN best
    ELSE LET route_value == calculate_objective_value(ns, cache, seeds[k])
         IN  IF best.routes = <<>> \/ route_value <= best.value
               THEN best_seed_loop_last_tie(ns, cache, seeds, k + 1,
                        [routes |-> <<seeds[k]>>, value |-> route_value])
             ELSE best_seed_loop_last_tie(ns, cache, seeds, k + 1, best)

\* variant: a seed replaces the best one when its objective is greater
RECURSIVE best_seed_loop_greatest(_, _, _, _, _)
best_seed_loop_greatest(ns, cache, seeds, k, best) ==
    IF k > Len(seeds) THEN best
    ELSE LET route_value == calculate_objective_value(ns, cache, seeds[k])
         IN  IF best.routes = <<>> \/ route_value > best.value
               THEN best_seed_loop_greatest(ns, cache, seeds, k + 1,
                        [routes |-> <<seeds[k]>>, value |-> route_value])
             ELSE best_seed_loop_greatest(ns, cache, seeds, k + 1, best)

\* the loop over self.seed_routes of optimise, resumed at seed k (1-based) with
\* best == [routes |-> best_seed_routes, value |-> best_seed_route_value]; while
\* routes is empty the value stands for float("inf")
RECURSIVE best_seed_loop(_, _, _, _, _)
best_seed_loop(ns, cache, seeds, k, best) ==
    IF k > Len(seeds) THEN best
    ELSE LET route_value == calculate_objective_value(ns, cache, seeds[k])
         IN  IF best.routes = <<>> \/ route_value < best.value
               THEN best_seed_loop(ns, cache, seeds, k + 1,
                        [routes |-> <<seeds[k]>>, value |-> route_value])
             ELSE best_seed_loop(ns, cache, seeds, k + 1, best)

\* best_seed_routes after the loop over the seeds
best_seed_routes(ns, cache, seeds) ==
    LET memo == <<cached_l_value(ns, cache)>>   \* get_l_value is cached by the first call
    IN  best_seed_loop(ns, memo, seeds, 1, [routes |-> <<>>, value |-> 0]).routes

\* self.operations, by class name
operations == <<"TwoOptSwap", "ThreeOptSwap", "Relocate">>

\* variant: only the first two operators take turns
operation_at_first_two(iteration_count) == operations[(iteration_count % 2) + 1]

\* self.operations[iteration_count % len(self.operations)]
operation_at(iteration_count) == operations[(iteration_count % Len(operations)) + 1]

\* Relocate.apply: the point at position i (0-based) is taken out and put back
\* at position j; every other point keeps its relative order
Relocate_apply(r, i, j) ==
    LET removed == Slice(r, 0, i) \o Slice(r, i + 1, Len(r))
    IN  Slice(removed, 0, j) \o <<r[i + 1]>> \o Slice(removed, j, Len(removed))

\* Relocate.apply_first_improvement: the enumeration order is the
\* implementation's choice, so any valid candidate that strictly improves on
\* the input may be the one returned; the input comes back when there is none
Relocate_apply_first_improvement_results(ns, cache, r, only_valid) ==
    LET memo == <<cached_l_value(ns, cache)>>
        curr_value == calculate_objective_value(ns, memo, r)
        candidates == { Relocate_apply(r, i, j) : i, j \in 1..(Len(r) - 2) }
        improving == { c \in candidates :
                         /\ only_valid => is_valid_route(ns, c)
                         /\ calculate_objective_value(ns, memo, c) < curr_value }
    IN  IF improving = {} THEN {r} ELSE improving

\* the routes operation.apply_first_improvement(route=route) can return
\* (only_valid keeps its default True)
apply_first_improvement_results(ns, cache, operation, r) ==
    IF operation = "TwoOptSwap"
      THEN {TwoOptSwap_apply_first_improvement(ns, cache, r, TRUE)}
    ELSE IF operation = "ThreeOptSwap"
      THEN {ThreeOptSwap_apply_first_improvement(ns, cache, r, TRUE)}
    ELSE Relocate_apply_first_improvement_results(ns, cache, r, TRUE)

\* one entry of the log of calls optimise makes on its collaborators; the
\* fields a call does not pass keep the value given here
Event(name) ==
    [event |-> name, iteration |-> 0, answer |-> FALSE, operation |-> "none",
     route |-> <<>>, result |-> <<>>, current_value |-> 0, best_value |-> 0,
     improved |-> FALSE]

\* self.termination.should_terminate(iteration_count=...) and its answer
should_terminate_event(iteration_count, answer) ==
    [Event("should_terminate") EXCEPT !.iteration = iteration_count, !.answer = answer]

\* new_route = operation.apply_first_improvement(route=route)
apply_first_improvement_event(operation, r, new_route) ==
    [Event("apply_first_improvement") EXCEPT !.operation = operation, !.route = r,
                                             !.result = new_route]

\* self.callback.on_iteration(iteration=, current_value=, best_value=, improved=)
on_iteration_event(iteration, current_value, best_value, improved) ==
    [Event("on_iteration") EXCEPT !.iteration = iteration, !.current_value = current_value,
                                  !.best_value = best_value, !.improved = improved]

\* self.callback.save_route(iteration=, route=)
save_route_event(iteration, r) ==
    [Event("save_route") EXCEPT !.iteration = iteration, !.route = r]

\* variant: a candidate that ties with the working route counts as improved
optimise_iteration_not_strict(ns, cache, st, new_route) ==
    LET new_route_value == calculate_objective_value(ns, cache, new_route)
        improved == new_route_value <= st.route_value
    IN  [events |->
             <<on_iteration_event(st.iteration_count, new_route_value, st.route_value,
                                  improved)>>
             \o (IF improved THEN <<save_route_event(st.iteration_count, new_route)>>
                 ELSE <<>>),
         optimiser |->
             [pc |-> "loop",
              iteration_count |-> st.iteration_count + 1,
              route |-> IF improved THEN new_route ELSE st.route,
              route_value |-> IF improved THEN new_route_value ELSE st.route_value]]

\* variant: the iteration count advances by two
optimise_iteration_count_by_two(ns, cache, st, new_route) ==
    LET new_route_value == calculate_objective_value(ns, cache, new_route)
        improved == new_route_value < st.route_value
    IN  [events |->
             <<on_iteration_event(st.iteration_count, new_route_value, st.route_value,
                                  improved)>>
             \o (IF improved THEN <<save_route_event(st.iteration_count, new_route)>>
                 ELSE <<>>),
         optimiser |->
             [pc |-> "loop",
              iteration_count |-> st.iteration_count + 2,
              route |-> IF improved THEN new_route ELSE st.route,
              route_value |-> IF improved THEN new_route_value ELSE st.route_value]]

\* the body of the while loop after the operator returned new_route: the calls
\* made on the callback, and the optimiser's locals at the end of the body
optimise_iteration(ns, cache, st, new_route) ==
    LET new_route_value == calculate_objective_value(ns, cache, new_route)
        improved == new_route_value < st.route_value
    IN  [events |->
             <<on_iteration_event(st.iteration_count, new_route_value, st.route_value,
                                  improved)>>
             \o (IF improved THEN <<save_route_event(st.iteration_count, new_route)>>
                 ELSE <<>>),
         optimiser |->
             [pc |-> "loop",
              iteration_count |-> st.iteration_count + 1,
              route |-> IF improved THEN new_route ELSE st.route,
              route_value |-> IF improved THEN new_route_value ELSE st.route_value]]

(***************************************************************************)
(* Inputs: registries with dense ids 0..n+1 in ascending order, and routes *)
(* over a registry.                                                        *)
(***************************************************************************)
Node(i, cx) == [id |-> i, x |-> cx, y |-> 0]

\* the registries of 2..MaxNodes points in which point i lies at x = i
LineRegistries == { [k \in 1..size |-> Node(k - 1, k - 1)] : size \in 2..MaxNodes }

\* the registries of 2..MaxNodes points in which point i lies at x = i mod m, for
\* every m in 1..MaxCoord + 1: all points coincident (m = 1), alternating between
\* two places (m = 2), cycling through three (m = 3), ...
FoldedRegistries ==
    UNION { { [k \in 1..size |-> Node(k - 1, (k - 1) % m)] : m \in 1..(MaxCoord + 1) } :
            size \in 2..MaxNodes }

Permutations1(n) == { p \in [1..n -> 1..n] : \A i, j \in 1..n : p[i] = p[j] => i = j }

\* origin, the intermediates in any order, destination
PermRoutes(ns) ==
    LET n == Len(ns) - 2
    IN  { <<ns[1]>> \o [k \in 1..n |-> ns[p[k] + 1]] \o <<ns[Len(ns)]>> :
          p \in Permutations1(n) }

\* every sequence of at most len points of the registry
ShortRoutes(ns, len) ==
    UNION { [1..l -> {ns[k] : k \in 1..Len(ns)}] : l \in 0..len }

\* a PermRoute with one position overwritten by any point, or one position removed
MutatedRoutes(ns) ==
    { [r EXCEPT ![k] = ns[d]] : r \in PermRoutes(ns), k \in 1..Len(ns), d \in 1..Len(ns) }
    \cup { SubSeq(r, 1, k - 1) \o SubSeq(r, k + 1, Len(r)) :
           r \in PermRoutes(ns), k \in 1..Len(ns) }

\* the registry in its own order, and the same with the intermediates rotated
RotatedRoutes(ns) ==
    LET n == Len(ns) - 2
    IN  { <<ns[1]>> \o [k \in 1..n |-> ns[((k - 1 + d) % n) + 2]] \o <<ns[Len(ns)]>> :
          d \in 0..(IF n > 1 THEN 1 ELSE 0) }

\* seed routes: the registry in its own order, the intermediates rotated by up
\* to two places, the intermediates reversed, and the routes of at most one point
SeedRoutes(ns) ==
    LET n == Len(ns) - 2
    IN  { <<ns[1]>> \o [k \in 1..n |-> ns[((k - 1 + d) % n) + 2]] \o <<ns[Len(ns)]>> :
          d \in 0..(IF n > 2 THEN 2 ELSE IF n > 1 THEN 1 ELSE 0) }
        \cup { <<ns[1]>> \o [k \in 1..n |-> ns[n + 2 - k]] \o <<ns[Len(ns)]>> }
        \cup ShortRoutes(ns, 1)

\* the registries of 2..MaxApplyNodes points in which point i lies at x = i
ApplyRegistries == { [k \in 1..size |-> Node(k - 1, k - 1)] : size \in 2..MaxApplyNodes }

\* optimise has not been called
Idle == [pc |-> "idle", iteration_count |-> 0, route |-> <<>>, route_value |-> 0]

NoCall == [op |-> "none", args |-> <<>>]
NoReturn == [raised |-> FALSE, value |-> "none"]
Returned(v) == [raised |-> FALSE, value |-> v]
Raised(e) == [raised |-> TRUE, value |-> e]

(***************************************************************************)
(* Spec: RouteEvaluator.calculate_objective_value on a route.              *)
(***************************************************************************)
Init ==
    /\ nodes \in FoldedRegistries
    /\ respect_even_to_odd_travel_constraint = TRUE
    /\ respect_odd_to_even_travel_constraint = TRUE
    /\ l_cache = <<>>
    /\ route \in PermRoutes(nodes) \cup MutatedRoutes(nodes) \cup ShortRoutes(nodes, 3)
    /\ call = NoCall
    /\ ret = NoReturn
    /\ seed_routes = <<>>
    /\ optimiser = Idle
    /\ log = <<>>

\* route_eval.calculate_objective_value(route): max() of the empty list raises
\* before get_l_value is reached; otherwise L is memoised by the first call.
CalculateObjective ==
    /\ call' = [op |-> "calculate_objective_value", args |-> <<>>]
    /\ IF objective_raises(route)
         THEN /\ ret' = Raised("ValueError")
              /\ UNCHANGED l_cache
         ELSE /\ ret' = Returned(calculate_objective_value(nodes, l_cache, route))
              /\ l_cache' = <<cached_l_value(nodes, l_cache)>>
    /\ UNCHANGED <<nodes, respect_even_to_odd_travel_constraint,
                   respect_odd_to_even_travel_constraint, route>>
    /\ UNCHANGED <<seed_routes, optimiser, log>>

Next == CalculateObjective

Spec == Init /\ [][Next]_vars

(***************************************************************************)
(* SpecValid: RouteEvaluator.is_valid_route on a route and                 *)
(* EdgeManager.is_edge_valid on its consecutive pairs.                     *)
(***************************************************************************)
InitValid ==
    /\ nodes \in LineRegistries
    /\ respect_even_to_odd_travel_constraint \in BOOLEAN
    /\ respect_odd_to_even_travel_constraint \in BOOLEAN
    /\ l_cache = <<>>
    /\ route \in MutatedRoutes(nodes) \cup ShortRoutes(nodes, 2)
    /\ call = NoCall
    /\ ret = NoReturn
    /\ seed_routes = <<>>
    /\ optimiser = Idle
    /\ log = <<>>

IsValidRoute ==
    /\ call.op = "none"
    /\ call' = [op |-> "is_valid_route", args |-> <<>>]
    /\ ret' = Returned(is_valid_route(nodes, route))
    /\ UNCHANGED <<nodes, respect_even_to_odd_travel_constraint,
                   respect_odd_to_even_travel_constraint, l_cache, route>>
    /\ UNCHANGED <<seed_routes, optimiser, log>>

\* edge_manager.is_edge_valid(route[k], route[k + 1]), k 0-based
IsEdgeValid(k) ==
    /\ call.op = "none"
    /\ call' = [op |-> "is_edge_valid", args |-> <<route[k + 1], route[k + 2]>>]
    /\ ret' = Returned(is_edge_valid(nodes, respect_even_to_odd_travel_constraint,
                                     respect_odd_to_even_travel_constraint,
                                     route[k + 1], route[k + 2]))
    /\ UNCHANGED <<nodes, respect_even_to_odd_travel_constraint,
                   respect_odd_to_even_travel_constraint, l_cache, route>>
    /\ UNCHANGED <<seed_routes, optimiser, log>>

NextValid ==
    \/ IsValidRoute
    \/ \E k \in 0..(Len(route) - 2) : IsEdgeValid(k)

SpecValid == InitValid /\ [][NextValid]_vars

(***************************************************************************)
(* SpecImprove: the improvement searches of TwoOptSwap and ThreeOptSwap on *)
(* a route.  Each search starts with calculate_objective_value(route),     *)
(* which raises on a route of fewer than two points and memoises L.        *)
(***************************************************************************)
InitImprove ==
    /\ nodes \in FoldedRegistries
    /\ respect_even_to_odd_travel_constraint = TRUE
    /\ respect_odd_to_even_travel_constraint = TRUE
    /\ l_cache = <<>>
    /\ route \in PermRoutes(nodes) \cup ShortRoutes(nodes, 2)
    /\ call = NoCall
    /\ ret = NoReturn
    /\ seed_routes = <<>>
    /\ optimiser = Idle
    /\ log = <<>>

TwoOptBestImprovement(only_valid) ==
    /\ call.op = "none"
    /\ call' = [op |-> "TwoOptSwap.apply_best_improvement", args |-> <<only_valid>>]
    /\ IF objective_raises(route)
         THEN /\ ret' = Raised("ValueError")
              /\ UNCHANGED l_cache
         ELSE /\ ret' = Returned(
                     TwoOptSwap_apply_best_improvement(nodes, l_cache, route, only_valid))
              /\ l_cache' = <<cached_l_value(nodes, l_cache)>>
    /\ UNCHANGED <<nodes, respect_even_to_odd_travel_constraint,
                   respect_odd_to_even_travel_constraint, route>>
    /\ UNCHANGED <<seed_routes, optimiser, log>>

TwoOptFirstImprovement(only_valid) ==
    /\ call.op = "none"
    /\ call' = [op |-> "TwoOptSwap.apply_first_improvement", args |-> <<only_valid>>]
    /\ IF objective_raises(route)
         THEN /\ ret' = Raised("ValueError")
              /\ UNCHANGED l_cache
         ELSE /\ ret' = Returned(
                     TwoOptSwap_apply_first_improvement(nodes, l_cache, route, only_valid))
              /\ l_cache' = <<cached_l_value(nodes, l_cache)>>
    /\ UNCHANGED <<nodes, respect_even_to_odd_travel_constraint,
                   respect_odd_to_even_travel_constraint, route>>
    /\ UNCHANGED <<seed_routes, optimiser, log>>

ThreeOptBestImprovement(only_valid) ==
    /\ call.op = "none"
    /\ call' = [op |-> "ThreeOptSwap.apply_best_improvement", args |-> <<only_valid>>]
    /\ IF objective_raises(route)
         THEN /\ ret' = Raised("ValueError")
              /\ UNCHANGED l_cache
         ELSE /\ ret' = Returned(
                     ThreeOptSwap_apply_best_improvement(nodes, l_cache, route, only_valid))
              /\ l_cache' = <<cached_l_value(nodes, l_cache)>>
    /\ UNCHANGED <<nodes, respect_even_to_odd_travel_constraint,
                   respect_odd_to_even_travel_constraint, route>>
    /\ UNCHANGED <<seed_routes, optimiser, log>>

ThreeOptFirstImprovement(only_valid) ==
    /\ call.op = "none"
    /\ call' = [op |-> "ThreeOptSwap.apply_first_improvement", args |-> <<only_valid>>]
    /\ IF objective_raises(route)
         THEN /\ ret' = Raised("ValueError")
              /\ UNCHANGED l_cache
         ELSE /\ ret' = Returned(
                     ThreeOptSwap_apply_first_improvement(nodes, l_cache, route, only_valid))
              /\ l_cache' = <<cached_l_value(nodes, l_cache)>>
    /\ UNCHANGED <<nodes, respect_even_to_odd_travel_constraint,
                   respect_odd_to_even_travel_constraint, route>>
    /\ UNCHANGED <<seed_routes, optimiser, log>>

NextImprove ==
    \/ \E only_valid \in BOOLEAN : TwoOptBestImprovement(only_valid)
    \/ \E only_valid \in BOOLEAN : TwoOptFirstImprovement(only_valid)
    \/ \E only_valid \in BOOLEAN : ThreeOptBestImprovement(only_valid)
    \/ \E only_valid \in BOOLEAN : ThreeOptFirstImprovement(only_valid)

SpecImprove == InitImprove /\ [][NextImprove]_vars

(***************************************************************************)
(* SpecApply: TwoOptSwap.apply with explicit indices on the caller's       *)
(* route.  In in-place mode the route itself is rewritten.                 *)
(***************************************************************************)
InitApply ==
    /\ nodes \in LineRegistries
    /\ respect_even_to_odd_travel_constraint = TRUE
    /\ respect_odd_to_even_travel_constraint = TRUE
    /\ l_cache = <<>>
    /\ route \in PermRoutes(nodes) \cup ShortRoutes(nodes, 2)
    /\ call = NoCall
    /\ ret = NoReturn
    /\ seed_routes = <<>>
    /\ optimiser = Idle
    /\ log = <<>>

\* two_opt.apply(route, v1=v1, v2=v2, inplace=inplace); args keeps the sequence
\* the route had when the call was made
TwoOptApply(v1, v2, inplace) ==
    /\ call' = [op |-> "TwoOptSwap.apply", args |-> <<route, v1, v2, inplace>>]
    /\ ret' = Returned(TwoOptSwap_apply(route, v1, v2))
    /\ route' = IF inplace THEN TwoOptSwap_apply(route, v1, v2) ELSE route
    /\ UNCHANGED <<nodes, respect_even_to_odd_travel_constraint,
                   respect_odd_to_even_travel_constraint, l_cache>>
    /\ UNCHANGED <<seed_routes, optimiser, log>>

NextApply ==
    \E v1, v2 \in 0..Len(route) : \E inplace \in BOOLEAN : TwoOptApply(v1, v2, inplace)

SpecApply == InitApply /\ [][NextApply]_vars

(***************************************************************************)
(* SpecOperator: TwoOptSwap.apply and ThreeOptSwap.apply with explicit     *)
(* parameters on the caller's Route object, followed by the caller         *)
(* appending a point to the sequence of the Route it got back.             *)
(***************************************************************************)
InitOperator ==
    /\ nodes \in ApplyRegistries
    /\ respect_even_to_odd_travel_constraint = TRUE
    /\ respect_odd_to_even_travel_constraint = TRUE
    /\ l_cache = <<>>
    /\ route \in RotatedRoutes(nodes) \cup ShortRoutes(nodes, 1)
    /\ call = NoCall
    /\ ret = NoReturn
    /\ seed_routes = <<>>
    /\ optimiser = Idle
    /\ log = <<>>

\* two_opt.apply(route, v1=v1, v2=v2, inplace=inplace)
TwoOptSwapApply(v1, v2, inplace) ==
    /\ call.op = "none"
    /\ call' = [op |-> "TwoOptSwap.apply",
                args |-> [route |-> route, v1 |-> v1, v2 |-> v2, inplace |-> inplace]]
    /\ ret' = Returned(TwoOptSwap_apply_object(route, v1, v2, inplace).result)
    /\ route' = TwoOptSwap_apply_object(route, v1, v2, inplace).route
    /\ UNCHANGED <<nodes, respect_even_to_odd_travel_constraint,
                   respect_odd_to_even_travel_constraint, l_cache>>
    /\ UNCHANGED <<seed_routes, optimiser, log>>

\* three_opt.apply(route, v1, v2, v3, reconnection_type, inplace=inplace)
ThreeOptSwapApply(v1, v2, v3, reconnection_type, inplace) ==
    /\ call.op = "none"
    /\ call' = [op |-> "ThreeOptSwap.apply",
                args |-> [route |-> route, v1 |-> v1, v2 |-> v2, v3 |-> v3,
                          reconnection_type |-> reconnection_type, inplace |-> inplace]]
    /\ ret' = Returned(
                 ThreeOptSwap_apply_object(route, v1, v2, v3, reconnection_type, inplace).result)
    /\ route' = ThreeOptSwap_apply_object(route, v1, v2, v3, reconnection_type, inplace).route
    /\ UNCHANGED <<nodes, respect_even_to_odd_travel_constraint,
                   respect_odd_to_even_travel_constraint, l_cache>>
    /\ UNCHANGED <<seed_routes, optimiser, log>>

\* result.sequence.append(node) by the caller, on the Route the call returned:
\* when that Route is the caller's own, its sequence is the one that grows
AppendToReturned(node) ==
    /\ call.op \in {"TwoOptSwap.apply", "ThreeOptSwap.apply"}
    /\ call' = [op |-> "Route.sequence.append", args |-> [apply |-> call, returned |-> ret.value]]
    /\ ret' = Returned([ret.value EXCEPT !.sequence = Append(@, node)])
    /\ route' = IF ret.value.ref = "input" THEN Append(route, node) ELSE route
    /\ UNCHANGED <<nodes, respect_even_to_odd_travel_constraint,
                   respect_odd_to_even_travel_constraint, l_cache>>
    /\ UNCHANGED <<seed_routes, optimiser, log>>

\* one apply call per behaviour, then one append by the caller
NextOperator ==
    \/ /\ call.op = "none"
       /\ \E v1, v2 \in 0..Len(route) : \E inplace \in BOOLEAN :
             TwoOptSwapApply(v1, v2, inplace)
    \/ /\ call.op = "none"
       /\ \E v1, v2, v3 \in 0..Len(route) : \E reconnection_type \in -1..8 :
             \E inplace \in BOOLEAN : ThreeOptSwapApply(v1, v2, v3, reconnection_type, inplace)
    \/ AppendToReturned(nodes[1])

SpecOperator == InitOperator /\ [][NextOperator]_vars

(***************************************************************************)
(* SpecRandom: apply with omitted parameters, made once by each of two     *)
(* operators constructed with the same rnd_seed on equal input routes, and *)
(* apply with explicit parameters.                                         *)
(***************************************************************************)
\* self.rnd_generator.randint(a, b) of SystemRandom(x=rnd_seed): SystemRandom
\* reads the operating system's entropy source and ignores the seed it is
\* given, so any value of a..b can come out whatever rnd_seed is
SystemRandom_randint(rnd_seed, a, b) == a..b

\* randint(a, b) raises ValueError on an empty range
randint_raises(a, b) == a > b

\* the pairs (v1, v2) TwoOptSwap.apply can draw
TwoOptSwap_random_indices(rnd_seed, route_length) ==
    { p \in (1..route_length) \X (1..route_length) :
        /\ p[1] \in SystemRandom_randint(rnd_seed, 1, route_length - 3)
        /\ p[2] \in SystemRandom_randint(rnd_seed, p[1] + 1, route_length - 2) }

TwoOptSwap_random_raises(route_length) ==
    \/ randint_raises(1, route_length - 3)
    \/ \E v1 \in 1..(route_length - 3) : randint_raises(v1 + 1, route_length - 2)

\* the outcomes of TwoOptSwap.apply(route) with v1 and v2 omitted: the drawn
\* indices are not validated, the segment v1..v2 is reversed
TwoOptSwap_apply_omitted(rnd_seed, r) ==
    LET route_length == Len(r)
    IN  IF route_length < TWO_OPT_MIN_ROUTE_LENGTH THEN {Returned(Route_copy(r))}
        ELSE (IF TwoOptSwap_random_raises(route_length) THEN {Raised("ValueError")} ELSE {})
             \cup { Returned(NewRoute(Slice(r, 0, p[1]) \o Reversed(Slice(r, p[1], p[2] + 1))
                                          \o Slice(r, p[2] + 1, route_length))) :
                    p \in TwoOptSwap_random_indices(rnd_seed, route_length) }

\* variant: v3 is drawn up to the last position before the destination's
ThreeOptSwap_random_parameters_to_last(rnd_seed, route_length) ==
    { p \in (1..route_length) \X (1..route_length) \X (1..route_length) \X (1..7) :
        /\ p[1] \in SystemRandom_randint(rnd_seed, 1, route_length - 5)
        /\ p[2] \in SystemRandom_randint(rnd_seed, p[1] + 1, route_length - 3)
        /\ p[3] \in SystemRandom_randint(rnd_seed, p[2] + 1, route_length - 1)
        /\ p[4] \in SystemRandom_randint(rnd_seed, 1, 7) }

\* the tuples (v1, v2, v3, reconnection_type) ThreeOptSwap.apply can draw
ThreeOptSwap_random_parameters(rnd_seed, route_length) ==
    { p \in (1..route_length) \X (1..route_length) \X (1..route_length) \X (1..7) :
        /\ p[1] \in SystemRandom_randint(rnd_seed, 1, route_length - 5)
        /\ p[2] \in SystemRandom_randint(rnd_seed, p[1] + 1, route_length - 3)
        /\ p[3] \in SystemRandom_randint(rnd_seed, p[2] + 1, route_length - 2)
        /\ p[4] \in SystemRandom_randint(rnd_seed, 1, 7) }

ThreeOptSwap_random_raises(route_length) ==
    \/ randint_raises(1, route_length - 5)
    \/ \E v1 \in 1..(route_length - 5) : randint_raises(v1 + 1, route_length - 3)
    \/ \E v2 \in 2..(route_length - 3) : randint_raises(v2 + 1, route_length - 2)

\* the outcomes of ThreeOptSwap.apply(route) with every parameter omitted
ThreeOptSwap_apply_omitted(rnd_seed, r) ==
    LET route_length == Len(r)
    IN  IF route_length < THREE_OPT_MIN_ROUTE_LENGTH THEN {Returned(Route_copy(r))}
        ELSE (IF ThreeOptSwap_random_raises(route_length) THEN {Raised("ValueError")} ELSE {})
             \cup { Returned(NewRoute(
                        _get_all_reconnections(
                            Slice(r, 0, p[1]), Slice(r, p[1], p[2]), Slice(r, p[2], p[3]),
                            Slice(r, p[3], route_length))[p[4] + 1])) :
                    p \in ThreeOptSwap_random_parameters(rnd_seed, route_length) }

\* the seeds the two operators are constructed with
RndSeeds == {0, RANDOM_SEED_VALUE}

InitRandom ==
    /\ nodes \in ApplyRegistries
    /\ respect_even_to_odd_travel_constraint = TRUE
    /\ respect_odd_to_even_travel_constraint = TRUE
    /\ l_cache = <<>>
    /\ route \in RotatedRoutes(nodes) \cup ShortRoutes(nodes, 1)
    /\ call = NoCall
    /\ ret = NoReturn
    /\ seed_routes = <<>>
    /\ optimiser = Idle
    /\ log = <<>>

\* TwoOptSwap(rnd_seed=rnd_seed).apply(route), once in each of two runs
TwoOptSwapApplyOmitted(rnd_seed) ==
    /\ call.op = "none"
    /\ call' = [op |-> "TwoOptSwap.apply(route)",
                args |-> [route |-> route, rnd_seed |-> rnd_seed]]
    /\ \E first, second \in TwoOptSwap_apply_omitted(rnd_seed, route) :
          ret' = Returned([first |-> first, second |-> second])
    /\ UNCHANGED <<nodes, respect_even_to_odd_travel_constraint,
                   respect_odd_to_even_travel_constraint, l_cache, route>>
    /\ UNCHANGED <<seed_routes, optimiser, log>>

\* ThreeOptSwap(rnd_seed=rnd_seed).apply(route), once in each of two runs
ThreeOptSwapApplyOmitted(rnd_seed) ==
    /\ call.op = "none"
    /\ call' = [op |-> "ThreeOptSwap.apply(route)",
                args |-> [route |-> route, rnd_seed |-> rnd_seed]]
    /\ \E first, second \in ThreeOptSwap_apply_omitted(rnd_seed, route) :
          ret' = Returned([first |-> first, second |-> second])
    /\ UNCHANGED <<nodes, respect_even_to_odd_travel_constraint,
                   respect_odd_to_even_travel_constraint, l_cache, route>>
    /\ UNCHANGED <<seed_routes, optimiser, log>>

NextRandom ==
    \/ \E rnd_seed \in RndSeeds : TwoOptSwapApplyOmitted(rnd_seed)
    \/ \E rnd_seed \in RndSeeds : ThreeOptSwapApplyOmitted(rnd_seed)
    \/ /\ call.op = "none"
       /\ \E v1, v2 \in 0..Len(route) : \E inplace \in BOOLEAN :
             TwoOptSwapApply(v1, v2, inplace)
    \/ /\ call.op = "none"
       /\ \E v1, v2, v3 \in 0..Len(route) : \E reconnection_type \in -1..8 :
             \E inplace \in BOOLEAN : ThreeOptSwapApply(v1, v2, v3, reconnection_type, inplace)

SpecRandom == InitRandom /\ [][NextRandom]_vars

(***************************************************************************)
(* SpecSeed: LocalSearchImprover.add_seed_route and the start of optimise  *)
(* (the empty-seed return and the choice of the working route).            *)
(***************************************************************************)
InitSeed ==
    /\ nodes \in FoldedRegistries
    /\ respect_even_to_odd_travel_constraint = TRUE
    /\ respect_odd_to_even_travel_constraint = TRUE
    /\ l_cache = <<>>
    /\ route = <<>>
    /\ call = NoCall
    /\ ret = NoReturn
    /\ seed_routes = <<>>
    /\ optimiser = Idle
    /\ log = <<>>

\* improver.add_seed_route(r)
AddSeedRoute(r) ==
    /\ optimiser.pc = "idle"
    /\ Len(seed_routes) < MaxSeeds
    /\ seed_routes' = Append(seed_routes, r)
    /\ call' = [op |-> "add_seed_route", args |-> <<r>>]
    /\ ret' = NoReturn
    /\ UNCHANGED <<nodes, respect_even_to_odd_travel_constraint,
                   respect_odd_to_even_travel_constraint, l_cache, route, optimiser, log>>

\* improver.optimise() up to the while loop.  Without seeds it builds
\* Route(sequence=[]), which lacks the required field `name`: pydantic raises
\* ValidationError.  A seed of fewer than two points makes
\* calculate_objective_value raise ValueError.  Otherwise the working route is
\* a copy of the best seed.
OptimiseStart ==
    /\ optimiser.pc = "idle"
    /\ call' = [op |-> "optimise", args |-> <<>>]
    /\ IF seed_routes = <<>>
         THEN /\ ret' = Raised("ValidationError")
              /\ optimiser' = [optimiser EXCEPT !.pc = "done"]
              /\ UNCHANGED l_cache
         ELSE IF \E k \in 1..Len(seed_routes) : objective_raises(seed_routes[k])
           THEN /\ ret' = Raised("ValueError")
                /\ optimiser' = [optimiser EXCEPT !.pc = "done"]
                /\ l_cache' = IF objective_raises(seed_routes[1]) THEN l_cache
                               ELSE <<cached_l_value(nodes, l_cache)>>
         ELSE LET seed_route == best_seed_routes(nodes, l_cache, seed_routes)[1]
              IN  /\ ret' = NoReturn
                  /\ optimiser' = [pc |-> "loop", iteration_count |-> 0,
                                   route |-> seed_route,
                                   route_value |->
                                       calculate_objective_value(nodes, l_cache, seed_route)]
                  /\ l_cache' = <<cached_l_value(nodes, l_cache)>>
    /\ UNCHANGED <<nodes, respect_even_to_odd_travel_constraint,
                   respect_odd_to_even_travel_constraint, route, seed_routes, log>>

NextSeed ==
    \/ \E r \in SeedRoutes(nodes) : AddSeedRoute(r)
    \/ OptimiseStart

SpecSeed == InitSeed /\ [][NextSeed]_vars

(***************************************************************************)
(* SpecSearch: LocalSearchImprover.optimise from one seed route.  The      *)
(* termination policy may answer either way at each consultation, up to    *)
(* MaxIterations iterations; every call optimise makes on the policy, the  *)
(* operators and the callback is appended to log.                          *)
(***************************************************************************)
InitSearch ==
    /\ nodes \in FoldedRegistries
    /\ respect_even_to_odd_travel_constraint = TRUE
    /\ respect_odd_to_even_travel_constraint = TRUE
    /\ l_cache = <<>>
    /\ route = <<>>
    /\ call = NoCall
    /\ ret = NoReturn
    /\ seed_routes = <<>>
    /\ optimiser = Idle
    /\ log = <<>>

\* one pass of the while loop: the policy answers False, the operator of this
\* iteration searches from the working route, the callback is told, the
\* working route is replaced when the candidate is strictly better
OptimiseIteration ==
    /\ optimiser.pc = "loop"
    /\ optimiser.iteration_count < MaxIterations
    /\ LET operation == operation_at(optimiser.iteration_count)
       IN  \E new_route \in
                 apply_first_improvement_results(nodes, l_cache, operation, optimiser.route) :
              LET body == optimise_iteration(nodes, l_cache, optimiser, new_route)
              IN  /\ log' = log
                             \o <<should_terminate_event(optimiser.iteration_count, FALSE),
                                  apply_first_improvement_event(operation, optimiser.route,
                                                                new_route)>>
                             \o body.events
                  /\ optimiser' = body.optimiser
    /\ UNCHANGED <<nodes, respect_even_to_odd_travel_constraint,
                   respect_odd_to_even_travel_constraint, l_cache, route, call, ret,
                   seed_routes>>

\* the policy answers True: the loop ends and optimise returns [route]
OptimiseReturn ==
    /\ optimiser.pc = "loop"
    /\ log' = Append(log, should_terminate_event(optimiser.iteration_count, TRUE))
    /\ optimiser' = [optimiser EXCEPT !.pc = "done"]
    /\ ret' = Returned(<<optimiser.route>>)
    /\ UNCHANGED <<nodes, respect_even_to_odd_travel_constraint,
                   respect_odd_to_even_travel_constraint, l_cache, route, call,
                   seed_routes>>

NextSearch ==
    \/ /\ seed_routes = <<>>
       /\ \E r \in PermRoutes(nodes) : AddSeedRoute(r)
    \/ /\ seed_routes # <<>>
       /\ OptimiseStart
    \/ OptimiseIteration
    \/ OptimiseReturn

SpecSearch == InitSearch /\ [][NextSearch]_vars

(***************************************************************************)
(* Claims about the evaluator and the travel-constraint model.             *)
(***************************************************************************)
EdgeCount == Len(route) - 1
EdgeDistance(k) == get_distance(route[k], route[k + 1])
RegistryPairs == { p \in (1..Len(nodes)) \X (1..Len(nodes)) : p[1] < p[2] }
PairDistance(p) == get_distance(nodes[p[1]], nodes[p[2]])

\* C1: for every route with at least 2 points, calculate_objective_value returns
\* L * (max(edges) - min(edges)) + sum(edges), where edges are the distances of the
\* route's consecutive pairs and L is the largest distance over all unordered
\* pairs of registry points times (registry size - 2).
C1_ObjectiveFormula ==
    (call.op = "calculate_objective_value" /\ Len(route) >= 2) =>
        /\ ~ret.raised
        /\ \E kmax, kmin \in 1..EdgeCount : \E pmax \in RegistryPairs :
              /\ \A k \in 1..EdgeCount :
                    EdgeDistance(kmin) <= EdgeDistance(k) /\ EdgeDistance(k) <= EdgeDistance(kmax)
              /\ \A p \in RegistryPairs : PairDistance(p) <= PairDistance(pmax)
              /\ ret.value =
                    (PairDistance(pmax) * (Len(nodes) - 2))
                        * (EdgeDistance(kmax) - EdgeDistance(kmin))
                    + SeqSum([k \in 1..EdgeCount |-> EdgeDistance(k)])

\* an objective was computed in which the spread term L * delta is not zero and
\* the longest edge of the route is shorter than the registry's longest pair
C1_Witness ==
    /\ call.op = "calculate_objective_value"
    /\ ~ret.raised
    /\ Len(route) >= 4
    /\ ret.value > SeqSum([k \in 1..EdgeCount |-> EdgeDistance(k)])
    /\ \E p \in RegistryPairs : \A k \in 1..EdgeCount : EdgeDistance(k) < PairDistance(p)
    /\ l_cache # <<>>

IntermediateCount == Len(nodes) - 2

\* the positional rule of the travel constraint for i -> j with threshold n / 2
ForbiddenPair(i, j, n) ==
    \/ i % 2 = 0 /\ j % 2 = 1 /\ 2 * i < n
    \/ i % 2 = 1 /\ j % 2 = 0 /\ 2 * i >= n

HasDuplicateIntermediate ==
    \E k, m \in 2..(Len(route) - 1) : k # m /\ route[k] = route[m]

C3_ValidRouteEdgesPermitted ==
    (call.op = "is_valid_route" /\ ret.value = TRUE) =>
        \A k \in 1..(Len(route) - 1) :
            is_edge_valid(nodes, TRUE, TRUE, route[k], route[k + 1])

\* C4: is_edge_valid returns true, whatever the toggles, when from or to is the
\* origin depot and when from is an intermediate and to is the destination depot.
C4_DepotEdgesPermitted ==
    (/\ call.op = "is_edge_valid"
     /\ \/ call.args[1].id = 0
        \/ call.args[2].id = 0
        \/ /\ call.args[1].id \in 1..IntermediateCount
           /\ call.args[2].id = IntermediateCount + 1)
    => ret.value = TRUE

\* C5: with both directional constraints enabled, is_edge_valid(i, j) is false for
\* an ordered pair of intermediates exactly when the pair check of is_valid_route
\* rejects i -> j.
C5_SameThreshold ==
    (/\ call.op = "is_edge_valid"
     /\ respect_even_to_odd_travel_constraint /\ respect_odd_to_even_travel_constraint
     /\ call.args[1].id \in 1..IntermediateCount
     /\ call.args[2].id \in 1..IntermediateCount)
    => (ret.value = valid_pairs_from(<<call.args[1], call.args[2]>>, IntermediateCount, 1))

(***************************************************************************)
(* Claims about the improvement searches.  The candidates of a search are  *)
(* the results of apply over the parameterisations the operator's contract *)
(* names, in lexicographic (enumeration) order.                            *)
(***************************************************************************)
BestOps == {"TwoOptSwap.apply_best_improvement", "ThreeOptSwap.apply_best_improvement"}
FirstOps == {"TwoOptSwap.apply_first_improvement", "ThreeOptSwap.apply_first_improvement"}
TwoOptOps == {"TwoOptSwap.apply_best_improvement", "TwoOptSwap.apply_first_improvement"}

\* 1 <= v1 < v2 <= len - 2
TwoOptParams ==
    { p \in (1..(Len(route) - 2)) \X (1..(Len(route) - 2)) : p[1] < p[2] }

\* 1 <= v1 < v2 < v3 <= len - 2 and reconnection types 1..7
ThreeOptParams ==
    { p \in (1..(Len(route) - 2)) \X (1..(Len(route) - 2)) \X (1..(Len(route) - 2)) \X (1..7) :
        p[1] < p[2] /\ p[2] < p[3] }

SearchParams == IF call.op \in TwoOptOps THEN TwoOptParams ELSE ThreeOptParams

SearchCandidate(p) ==
    IF call.op \in TwoOptOps THEN TwoOptSwap_apply(route, p[1], p[2])
    ELSE ThreeOptSwap_apply(route, p[1], p[2], p[3], p[4])

\* p is enumerated before q
EnumeratedBefore(p, q) ==
    \E k \in 1..Len(p) : p[k] < q[k] /\ \A j \in 1..(k - 1) : p[j] = q[j]

\* the candidates the search may return: all, or the valid ones under only_valid
Accepted == { p \in SearchParams : call.args[1] => is_valid_route(nodes, SearchCandidate(p)) }

Objective(r) == calculate_objective_value(nodes, l_cache, r)

\* C6: for every input route with at least 2 points and either value of only_valid,
\* the objective of the route returned by apply_best_improvement is less than or
\* equal to the objective of the input route.
C6_BestNeverWorse ==
    (call.op \in BestOps /\ Len(route) >= 2) =>
        /\ ~ret.raised
        /\ Objective(ret.value) <= Objective(route)

\* a best-improvement search returned a strictly better route although some
\* candidate was worse than the input
C6_Witness ==
    /\ call.op = "ThreeOptSwap.apply_best_improvement"
    /\ ~ret.raised
    /\ Objective(ret.value) < Objective(route)
    /\ \E p \in SearchParams : Objective(SearchCandidate(p)) > Objective(route)

\* C7: apply_best_improvement returns the accepted candidate of minimum objective,
\* the first enumerated among those attaining the minimum, provided the minimum is
\* strictly below the input's objective; otherwise it returns the input's sequence.
C7_BestIsFirstMinimum ==
    (call.op \in BestOps /\ Len(route) >= 2) =>
        /\ ~ret.raised
        /\ LET value == [p \in Accepted |-> Objective(SearchCandidate(p))]
               input == Objective(route)
           IN  IF \A p \in Accepted : value[p] >= input
                 THEN ret.value = route
               ELSE \E p \in Accepted :
                       /\ \A q \in Accepted : value[p] <= value[q]
                       /\ \A q \in Accepted :
                             value[q] = value[p] => (q = p \/ EnumeratedBefore(p, q))
                       /\ ret.value = SearchCandidate(p)

\* a best-improvement search under only_valid returned an improving candidate
\* while a later candidate with a different sequence attained the same minimum
\* and a rejected (invalid) candidate was better still
C7_Witness ==
    /\ call.op \in BestOps
    /\ call.args[1] = TRUE
    /\ ~ret.raised
    /\ ret.value # route
    /\ \E q \in Accepted :
          /\ SearchCandidate(q) # ret.value
          /\ Objective(SearchCandidate(q)) = Objective(ret.value)
    /\ \E q \in SearchParams \ Accepted :
          Objective(SearchCandidate(q)) < Objective(ret.value)

\* C8: apply_first_improvement returns the first candidate in enumeration order
\* that is accepted and whose objective is strictly below the input's; if there
\* is none it returns the input route unchanged.
C8_FirstIsFirstImproving ==
    (call.op \in FirstOps /\ Len(route) >= 2) =>
        /\ ~ret.raised
        /\ LET improving ==
                   { p \in Accepted : Objective(SearchCandidate(p)) < Objective(route) }
           IN  IF improving = {}
                 THEN ret.value = route
               ELSE \E p \in improving :
                       /\ \A q \in improving : q = p \/ EnumeratedBefore(p, q)
                       /\ ret.value = SearchCandidate(p)

\* a first-improvement search under only_valid returned a candidate that is not
\* the best one, after skipping an earlier improving candidate that is invalid
C8_Witness ==
    /\ call.op = "ThreeOptSwap.apply_first_improvement"
    /\ call.args[1] = TRUE
    /\ ~ret.raised
    /\ ret.value # route
    /\ \E q \in Accepted : Objective(SearchCandidate(q)) < Objective(ret.value)
    /\ \E p, q \in SearchParams :
          /\ ret.value = SearchCandidate(p)
          /\ EnumeratedBefore(q, p)
          /\ q \notin Accepted
          /\ Objective(SearchCandidate(q)) < Objective(route)

(***************************************************************************)
(* Claims about TwoOptSwap.apply.                                          *)
(***************************************************************************)
\* the last call was TwoOptSwap.apply on a route of length >= 4 with
\* 1 <= v1 < v2 <= len - 2
TwoOptAppliedInRange ==
    /\ call.op = "TwoOptSwap.apply"
    /\ Len(call.args[1]) >= 4
    /\ 1 <= call.args[2]
    /\ call.args[2] < call.args[3]
    /\ call.args[3] <= Len(call.args[1]) - 2

\* C9: TwoOptSwap.apply with explicit indices is its own inverse: applying it to
\* its own result with the same v1, v2 gives back the sequence of the input.
C9_TwoOptInvolution ==
    TwoOptAppliedInRange =>
        TwoOptSwap_apply(ret.value, call.args[2], call.args[3]) = call.args[1]

\* an in-range apply changed the sequence (and applying it again restores it)
C9_Witness ==
    /\ TwoOptAppliedInRange
    /\ ret.value # call.args[1]
    /\ call.args[3] - call.args[2] >= 2
    /\ TwoOptSwap_apply(ret.value, call.args[2], call.args[3]) = call.args[1]

ThreeOptAppliedInRange ==
    /\ call.op = "ThreeOptSwap.apply"
    /\ Len(call.args.route) >= 6
    /\ 1 <= call.args.v1
    /\ call.args.v1 < call.args.v2
    /\ call.args.v2 < call.args.v3
    /\ call.args.v3 <= Len(call.args.route) - 2
    /\ call.args.reconnection_type \in 0..7

\* the sequence the contract names for type k, with A = r[0:v1], B = r[v1:v2],
\* C = r[v2:v3], D = r[v3:] (positions counted from 0)
ContractReconnection(r, v1, v2, v3, k) ==
    LET A == SubSeq(r, 1, v1)
        B == SubSeq(r, v1 + 1, v2)
        C == SubSeq(r, v2 + 1, v3)
        D == SubSeq(r, v3 + 1, Len(r))
        rev(s) == [i \in 1..Len(s) |-> s[Len(s) + 1 - i]]
    IN  CASE k = 0 -> A \o B \o C \o D
          [] k = 1 -> A \o B \o rev(C) \o D
          [] k = 2 -> A \o rev(B) \o C \o D
          [] k = 3 -> A \o C \o B \o D
          [] k = 4 -> A \o rev(B) \o rev(C) \o D
          [] k = 5 -> A \o C \o rev(B) \o D
          [] k = 6 -> A \o rev(C) \o B \o D
          [] k = 7 -> A \o rev(C) \o rev(B) \o D

\* C11: for a route of length >= 6, 1 <= v1 < v2 < v3 <= len - 2 and type k in 0..7,
\* ThreeOptSwap.apply returns the sequence the contract names for k: 0 A B C D,
\* 1 A B rev(C) D, 2 A rev(B) C D, 3 A C B D, 4 A rev(B) rev(C) D, 5 A C rev(B) D,
\* 6 A rev(C) B D, 7 A rev(C) rev(B) D.
C11_ThreeOptReconnections ==
    ThreeOptAppliedInRange =>
        /\ ~ret.raised
        /\ ret.value.sequence =
              ContractReconnection(call.args.route, call.args.v1, call.args.v2, call.args.v3,
                                   call.args.reconnection_type)

\* an in-range three-opt apply of type 5 or 6 with B and C of different lengths
\* returned a sequence that differs from the input
C11_Witness ==
    /\ ThreeOptAppliedInRange
    /\ call.args.reconnection_type \in {5, 6}
    /\ call.args.v2 - call.args.v1 # call.args.v3 - call.args.v2
    /\ call.args.v2 - call.args.v1 >= 2
    /\ ret.value.sequence # call.args.route

DistinctPoints(r) == \A i, j \in 1..Len(r) : r[i] = r[j] => i = j

\* C12: for a route of pairwise distinct points and cut indices with at least 2
\* points in B = route[v1:v2] and in C = route[v2:v3], the 8 sequences apply
\* produces for reconnection types 0..7 are pairwise distinct.
C12_ReconnectionsDistinct ==
    (/\ ThreeOptAppliedInRange
     /\ DistinctPoints(call.args.route)
     /\ call.args.v2 - call.args.v1 >= 2
     /\ call.args.v3 - call.args.v2 >= 2)
    => LET out(k) == ThreeOptSwap_apply_object(call.args.route, call.args.v1, call.args.v2,
                         call.args.v3, k, FALSE).result.sequence
       IN  /\ ret.value.sequence = out(call.args.reconnection_type)
           /\ \A j, k \in 0..7 : j # k => out(j) # out(k)

\* three-opt was applied to a route of distinct points with B and C of 2 points
\* or more
C12_Witness ==
    /\ ThreeOptAppliedInRange
    /\ DistinctPoints(call.args.route)
    /\ call.args.v2 - call.args.v1 >= 2
    /\ call.args.v3 - call.args.v2 >= 2
    /\ call.args.reconnection_type = 4
    /\ ret.value.sequence # call.args.route

\* the parameters of the last apply call that the contract calls invalid: a route
\* below the minimum length, a cut index below 1 or above len - 2, two equal cut
\* indices, or a reconnection type outside 0..7
InvalidApplyParameters ==
    \/ /\ call.op = "TwoOptSwap.apply"
       /\ \/ Len(call.args.route) < 4
          \/ \E v \in {call.args.v1, call.args.v2} : v < 1 \/ v > Len(call.args.route) - 2
          \/ call.args.v1 = call.args.v2
    \/ /\ call.op = "ThreeOptSwap.apply"
       /\ \/ Len(call.args.route) < 6
          \/ \E v \in {call.args.v1, call.args.v2, call.args.v3} :
                v < 1 \/ v > Len(call.args.route) - 2
          \/ call.args.v1 = call.args.v2
          \/ call.args.v2 = call.args.v3
          \/ call.args.v1 = call.args.v3
          \/ call.args.reconnection_type \notin 0..7

\* C13: TwoOptSwap.apply and ThreeOptSwap.apply do not raise and return a route
\* with the input's sequence when the route is shorter than the minimum length,
\* a cut index is below 1 or above len - 2, two cut indices are equal, or the
\* reconnection type is outside 0..7.
C13_InvalidParametersReturnInput ==
    InvalidApplyParameters =>
        /\ ~ret.raised
        /\ ret.value.sequence = call.args.route
        /\ route = call.args.route

\* three-opt was called on a long enough route with valid, ascending cut
\* indices and a reconnection type outside 0..7, and returned the input
C13_Witness ==
    /\ call.op = "ThreeOptSwap.apply"
    /\ Len(call.args.route) >= 6
    /\ 1 <= call.args.v1 /\ call.args.v1 < call.args.v2 /\ call.args.v2 < call.args.v3
    /\ call.args.v3 <= Len(call.args.route) - 2
    /\ call.args.reconnection_type = 8
    /\ ret.value.sequence = call.args.route

\* the cut indices of the last apply call are not in ascending order as supplied
MisorderedIndices ==
    \/ call.op = "TwoOptSwap.apply" /\ call.args.v1 > call.args.v2
    \/ /\ call.op = "ThreeOptSwap.apply"
       /\ ~(call.args.v1 < call.args.v2 /\ call.args.v2 < call.args.v3)

LowIndex == CHOOSE v \in {call.args.v1, call.args.v2, call.args.v3} :
                \A w \in {call.args.v1, call.args.v2, call.args.v3} : v <= w
HighIndex == CHOOSE v \in {call.args.v1, call.args.v2, call.args.v3} :
                 \A w \in {call.args.v1, call.args.v2, call.args.v3} : w <= v
MidIndex == call.args.v1 + call.args.v2 + call.args.v3 - LowIndex - HighIndex

C15_CopyOrInPlace ==
    /\ (call.op \in {"TwoOptSwap.apply", "ThreeOptSwap.apply"} /\ ~call.args.inplace) =>
           (ret.value.ref = "new" /\ route = call.args.route)
    /\ (call.op = "Route.sequence.append" /\ ~call.args.apply.args.inplace) =>
           (route = call.args.apply.args.route /\ ret.value.sequence # route)
    /\ (call.op = "TwoOptSwap.apply" /\ call.args.inplace) =>
           /\ ret.value.ref = "input"
           /\ ret.value.sequence = route
           /\ route = TwoOptSwap_apply_object(call.args.route, call.args.v1, call.args.v2,
                                              FALSE).result.sequence
    /\ (call.op = "ThreeOptSwap.apply" /\ call.args.inplace) =>
           /\ ret.value.ref = "input"
           /\ ret.value.sequence = route
           /\ route = ThreeOptSwap_apply_object(call.args.route, call.args.v1, call.args.v2,
                           call.args.v3, call.args.reconnection_type, FALSE).result.sequence

\* the caller appended a point to the route a copy-mode three-opt apply returned
\* on an early-return path (a reconnection type outside 0..7); the input kept
\* its sequence
C15_Witness ==
    /\ call.op = "Route.sequence.append"
    /\ call.args.apply.op = "ThreeOptSwap.apply"
    /\ ~call.args.apply.args.inplace
    /\ call.args.apply.args.reconnection_type = 8
    /\ Len(route) >= 6
    /\ call.args.returned.sequence = route
    /\ Len(ret.value.sequence) = Len(route) + 1

(***************************************************************************)
(* Claims about LocalSearchImprover.optimise.                              *)
(***************************************************************************)
\* C16: optimise called when no seed route was ever added does not raise and
\* returns a route with an empty sequence.
C16_NoSeedsReturnsEmptyRoute ==
    (call.op = "optimise" /\ seed_routes = <<>>) =>
        (~ret.raised /\ ret.value = <<>>)

\* every seed has an objective value (at least two points)
SeedsHaveObjective ==
    \A k \in 1..Len(seed_routes) : Len(seed_routes[k]) >= 2

\* C17: after any sequence of add_seed_route calls (of routes that have an
\* objective value), optimise starts the search from the seed with the lowest
\* objective value, the earliest added one among those that share it.
C17_StartsFromEarliestBestSeed ==
    (/\ call.op = "optimise" /\ optimiser.iteration_count = 0 /\ log = <<>>
     /\ seed_routes # <<>> /\ SeedsHaveObjective)
    => /\ ~ret.raised
       /\ optimiser.pc = "loop"
       /\ \E k \in 1..Len(seed_routes) :
             /\ \A j \in 1..Len(seed_routes) :
                   Objective(seed_routes[k]) <= Objective(seed_routes[j])
             /\ \A j \in 1..(k - 1) :
                   Objective(seed_routes[j]) > Objective(seed_routes[k])
             /\ optimiser.route = seed_routes[k]
             /\ optimiser.route_value = Objective(seed_routes[k])

\* optimise started from the second of three seeds: the first is worse, the
\* third ties with the second and has another sequence
C17_Witness ==
    /\ call.op = "optimise"
    /\ optimiser.pc = "loop"
    /\ Len(seed_routes) = 3
    /\ Objective(seed_routes[1]) > Objective(seed_routes[2])
    /\ Objective(seed_routes[3]) = Objective(seed_routes[2])
    /\ seed_routes[3] # seed_routes[2]
    /\ optimiser.route = seed_routes[2]

\* positions of the log holding a call of the given name
Calls(name) == { k \in 1..Len(log) : log[k].event = name }

\* the index of the iteration the log entry at position k belongs to: the
\* number of operator runs started before it
IterationIndex(k) ==
    Cardinality({ j \in 1..(k - 1) : log[j].event = "apply_first_improvement" })

\* the working route after the first i iterations of the log: the seed, then
\* each candidate that was strictly better than the working route it was
\* compared with
RECURSIVE WorkingRouteAfter(_)
WorkingRouteAfter(i) ==
    IF i = 0 THEN seed_routes[1]
    ELSE LET previous == WorkingRouteAfter(i - 1)
             k == CHOOSE c \in Calls("apply_first_improvement") : IterationIndex(c) = i - 1
         IN  IF Objective(log[k].result) < Objective(previous) THEN log[k].result
             ELSE previous

ConfiguredOperators == <<"TwoOptSwap", "ThreeOptSwap", "Relocate">>

\* C18: the operator run of the iteration with index i (counted from 0) is
\* apply_first_improvement of the operator at position i mod 3 of (TwoOptSwap,
\* ThreeOptSwap, Relocate), on the working route of that moment, whether or not
\* earlier iterations improved; the callback is told the same index i.
C18_RoundRobinOnWorkingRoute ==
    \A k \in Calls("apply_first_improvement") :
        LET i == IterationIndex(k)
        IN  /\ log[k].operation = ConfiguredOperators[(i % 3) + 1]
            /\ log[k].route = WorkingRouteAfter(i)
            /\ log[k + 1].event = "on_iteration"
            /\ log[k + 1].iteration = i

\* four iterations ran, the first of them did not improve and the second did:
\* the fourth is TwoOptSwap's again
C18_Witness ==
    /\ Cardinality(Calls("apply_first_improvement")) = 4
    /\ \E k \in Calls("on_iteration") : log[k].iteration = 0 /\ ~log[k].improved
    /\ \E k \in Calls("on_iteration") : log[k].iteration = 1 /\ log[k].improved
    /\ \E k \in Calls("apply_first_improvement") :
          IterationIndex(k) = 3 /\ log[k].operation = "TwoOptSwap"

\* the log entries one step appends
Appended == SubSeq(log', Len(log) + 1, Len(log'))

\* C19: a step that runs one iteration of optimise calls on_iteration exactly
\* once, with the iteration index, the candidate's objective, the working
\* route's objective before the update and improved = candidate < working; it
\* calls save_route exactly when improved holds, after on_iteration, with the
\* candidate, which is the new working route; when improved does not hold the
\* working route and its objective stay as they were.
C19_CallbackPerIteration ==
    [][(optimiser.pc = "loop" /\ optimiser'.pc = "loop") =>
        LET ons == { k \in 1..Len(Appended) : Appended[k].event = "on_iteration" }
            saves == { k \in 1..Len(Appended) : Appended[k].event = "save_route" }
            runs == { k \in 1..Len(Appended) : Appended[k].event = "apply_first_improvement" }
        IN  /\ Cardinality(ons) = 1
            /\ Cardinality(runs) = 1
            /\ \A o \in ons : \A a \in runs :
                  LET candidate == Appended[a].result
                      improved == Objective(candidate) < Objective(optimiser.route)
                  IN  /\ a < o
                      /\ Appended[o].iteration = optimiser.iteration_count
                      /\ Appended[o].current_value = Objective(candidate)
                      /\ Appended[o].best_value = Objective(optimiser.route)
                      /\ Appended[o].best_value = optimiser.route_value
                      /\ Appended[o].improved = improved
                      /\ Cardinality(saves) = IF improved THEN 1 ELSE 0
                      /\ \A v \in saves :
                            /\ o < v
                            /\ Appended[v].iteration = optimiser.iteration_count
                            /\ Appended[v].route = candidate
                            /\ optimiser'.route = candidate
                            /\ optimiser'.route_value = Objective(candidate)
                      /\ ~improved =>
                            /\ optimiser'.route = optimiser.route
                            /\ optimiser'.route_value = optimiser.route_value
      ]_vars

\* an iteration whose operator found nothing better (the candidate's objective
\* equals the working route's: not improved, no save_route), after an iteration
\* that improved and saved its candidate
C19_Witness ==
    \E o1, v, a, o2 \in 1..Len(log) :
        /\ o1 < v /\ v < a /\ a < o2
        /\ log[o1].event = "on_iteration" /\ log[o1].improved
        /\ log[v].event = "save_route" /\ log[v].iteration = log[o1].iteration
        /\ log[a].event = "apply_first_improvement"
        /\ log[o2].event = "on_iteration" /\ ~log[o2].improved
        /\ log[o2].current_value = log[o2].best_value
        /\ Cardinality({ k \in Calls("save_route") : log[k].iteration = log[o2].iteration }) = 0

\* the iteration indices reported to on_iteration, in log order
RECURSIVE ReportedIterations(_)
ReportedIterations(k) ==
    IF k = 0 THEN <<>>
    ELSE IF log[k].event = "on_iteration"
      THEN Append(ReportedIterations(k - 1), log[k].iteration)
    ELSE ReportedIterations(k - 1)

\* C20: with at least one seed, every operator run is directly preceded by a
\* consultation of the termination policy with the current iteration count
\* (the number of iterations already run) that answered False; nothing is
\* called after the policy answers True; and when the policy first answers True
\* at count N, optimise has run exactly N iterations, reported with the
\* indices 0..N-1 in increasing order, and returns the working route.
C20_TerminationPolicyObeyed ==
    /\ \A k \in Calls("apply_first_improvement") :
          /\ k > 1
          /\ log[k - 1].event = "should_terminate"
          /\ ~log[k - 1].answer
          /\ log[k - 1].iteration = IterationIndex(k)
    /\ \A k \in Calls("should_terminate") :
          /\ log[k].iteration = IterationIndex(k)
          /\ log[k].answer => k = Len(log)
    /\ (optimiser.pc = "done" /\ seed_routes # <<>> /\ ~ret.raised) =>
          LET N == log[Len(log)].iteration
          IN  /\ log[Len(log)].event = "should_terminate" /\ log[Len(log)].answer
              /\ Cardinality(Calls("apply_first_improvement")) = N
              /\ ReportedIterations(Len(log)) = [i \in 1..N |-> i - 1]
              /\ ret.value = <<WorkingRouteAfter(N)>>
              /\ ret.value = <<optimiser.route>>

\* optimise returned after three iterations, one of which improved
C20_Witness ==
    /\ optimiser.pc = "done"
    /\ ~ret.raised
    /\ log[Len(log)].event = "should_terminate" /\ log[Len(log)].iteration = 3
    /\ Calls("save_route") # {}
    /\ ret.value # <<seed_routes[1]>>

(***************************************************************************)
(* SpecOptimise: LocalSearchImprover.optimise from several seed routes.    *)
(***************************************************************************)
\* the seed routes that have an objective value
FullSeedRoutes(ns) == { r \in SeedRoutes(ns) : Len(r) >= MIN_ROUTE_NODES }

InitOptimise ==
    /\ nodes \in FoldedRegistries
    /\ respect_even_to_odd_travel_constraint = TRUE
    /\ respect_odd_to_even_travel_constraint = TRUE
    /\ l_cache = <<>>
    /\ route = <<>>
    /\ call = NoCall
    /\ ret = NoReturn
    /\ seed_routes = <<>>
    /\ optimiser = Idle
    /\ log = <<>>

NextOptimise ==
    \/ /\ optimiser.pc = "idle"
       /\ \E r \in FullSeedRoutes(nodes) : AddSeedRoute(r)
    \/ /\ seed_routes # <<>>
       /\ OptimiseStart
    \/ OptimiseIteration
    \/ OptimiseReturn

SpecOptimise == InitOptimise /\ [][NextOptimise]_vars

(***************************************************************************)
(* SpecPreserve: the improvement searches on a route, and optimise seeded  *)
(* with that route.                                                        *)
(***************************************************************************)
InitPreserve ==
    /\ nodes \in FoldedRegistries
    /\ respect_even_to_odd_travel_constraint = TRUE
    /\ respect_odd_to_even_travel_constraint = TRUE
    /\ l_cache = <<>>
    /\ route \in PermRoutes(nodes)
    /\ call = NoCall
    /\ ret = NoReturn
    /\ seed_routes = <<>>
    /\ optimiser = Idle
    /\ log = <<>>

NextPreserve ==
    \/ \E only_valid \in BOOLEAN : TwoOptBestImprovement(only_valid)
    \/ \E only_valid \in BOOLEAN : TwoOptFirstImprovement(only_valid)
    \/ \E only_valid \in BOOLEAN : ThreeOptBestImprovement(only_valid)
    \/ \E only_valid \in BOOLEAN : ThreeOptFirstImprovement(only_valid)
    \/ /\ call.op = "none"
       /\ seed_routes = <<>>
       /\ AddSeedRoute(route)
    \/ /\ seed_routes # <<>>
       /\ OptimiseStart
    \/ OptimiseIteration
    \/ OptimiseReturn

SpecPreserve == InitPreserve /\ [][NextPreserve]_vars

(***************************************************************************)
(* SpecNeighbors: EdgeManager.neighbors on a loaded registry.              *)
(***************************************************************************)
MaxCandidates == 2     \* longest supplied candidate list

InitNeighbors ==
    /\ nodes \in FoldedRegistries
    /\ respect_even_to_odd_travel_constraint \in BOOLEAN
    /\ respect_odd_to_even_travel_constraint \in BOOLEAN
    /\ l_cache = <<>>
    /\ route = <<>>
    /\ call = NoCall
    /\ ret = NoReturn
    /\ seed_routes = <<>>
    /\ optimiser = Idle
    /\ log = <<>>

\* edge_manager.neighbors(node_id, candidates=, max_neighbors=, sort_by_distance=)
Neighbors(node_id, candidates, max_neighbors, sort_by_distance) ==
    /\ call.op = "none"
    /\ call' = [op |-> "neighbors",
                args |-> [node_id |-> node_id, candidates |-> candidates,
                          max_neighbors |-> max_neighbors,
                          sort_by_distance |-> sort_by_distance]]
    /\ ret' = Returned(neighbors(nodes, respect_even_to_odd_travel_constraint,
                                 respect_odd_to_even_travel_constraint,
                                 node_id, candidates, max_neighbors, sort_by_distance))
    /\ UNCHANGED <<nodes, respect_even_to_odd_travel_constraint,
                   respect_odd_to_even_travel_constraint, l_cache, route>>
    /\ UNCHANGED <<seed_routes, optimiser, log>>

NextNeighbors ==
    /\ call.op = "none"
    /\ \E node_id \in 0..Len(nodes) :
       \E candidates \in {Omitted} \cup { Given(c) : c \in ShortRoutes(nodes, MaxCandidates) } :
       \E max_neighbors \in {Omitted} \cup { Given(m) : m \in 0..MaxCandidates } :
       \E sort_by_distance \in BOOLEAN :
           Neighbors(node_id, candidates, max_neighbors, sort_by_distance)

SpecNeighbors == InitNeighbors /\ [][NextNeighbors]_vars

(***************************************************************************)
(* SpecBound: LowerBoundCalculator.calculate_lower_bound on a registry,    *)
(* next to a route over the same registry.                                 *)
(***************************************************************************)
InitBound ==
    /\ nodes \in FoldedRegistries
    /\ respect_even_to_odd_travel_constraint = TRUE
    /\ respect_odd_to_even_travel_constraint = TRUE
    /\ l_cache = <<>>
    /\ route \in PermRoutes(nodes)
    /\ call = NoCall
    /\ ret = NoReturn
    /\ seed_routes = <<>>
    /\ optimiser = Idle
    /\ log = <<>>

CalculateLowerBound ==
    /\ call.op = "none"
    /\ call' = [op |-> "calculate_lower_bound", args |-> <<>>]
    /\ ret' = Returned(calculate_lower_bound(nodes))
    /\ UNCHANGED <<nodes, respect_even_to_odd_travel_constraint,
                   respect_odd_to_even_travel_constraint, l_cache, route>>
    /\ UNCHANGED <<seed_routes, optimiser, log>>

NextBound == CalculateLowerBound

SpecBound == InitBound /\ [][NextBound]_vars

(***************************************************************************)
(* SpecWeight: calculate_objective_value on registries whose points lie at *)
(* x = 0 or x = 1 in any arrangement (points may share a position).        *)
(***************************************************************************)
BinaryRegistries ==
    UNION { { [k \in 1..size |-> Node(k - 1, f[k])] : f \in [1..size -> 0..1] } :
            size \in 3..MaxNodes }

InitWeight ==
    /\ nodes \in BinaryRegistries
    /\ respect_even_to_odd_travel_constraint = TRUE
    /\ respect_odd_to_even_travel_constraint = TRUE
    /\ l_cache = <<>>
    /\ route \in PermRoutes(nodes)
    /\ call = NoCall
    /\ ret = NoReturn
    /\ seed_routes = <<>>
    /\ optimiser = Idle
    /\ log = <<>>

NextWeight == CalculateObjective

SpecWeight == InitWeight /\ [][NextWeight]_vars

(***************************************************************************)
(* optimiser/initial/naive.py and its use in main.py                       *)
(***************************************************************************)
\* [node for index, node in enumerate(s) if index % 2 = parity], index 0-based
RECURSIVE indexed_nodes(_, _)
indexed_nodes(s, parity) ==
    IF s = <<>> THEN <<>>
    ELSE LET rest == indexed_nodes(SubSeq(s, 1, Len(s) - 1), parity)
         IN  IF (Len(s) - 1) % 2 = parity THEN Append(rest, s[Len(s)]) ELSE rest

\* list.sort(key=lambda node: node.id, reverse=True): stable, greatest id first
RECURSIVE sort_by_id_reverse(_)
sort_by_id_reverse(s) ==
    IF s = <<>> THEN <<>>
    ELSE LET sorted == sort_by_id_reverse(SubSeq(s, 1, Len(s) - 1))
             e == s[Len(s)]
             before == Cardinality({ k \in 1..Len(sorted) : sorted[k].id >= e.id })
         IN  SubSeq(sorted, 1, before) \o <<e>> \o SubSeq(sorted, before + 1, Len(sorted))

\* NaiveSequencer.optimise on a registry that holds at least one node
NaiveSequencer_optimise(all_nodes) ==
    LET origin == all_nodes[1]
        destination == all_nodes[Len(all_nodes)]
        inner == SubSeq(all_nodes, 2, Len(all_nodes) - 1)
        even_indexed_nodes == sort_by_id_reverse(indexed_nodes(inner, 0))
        odd_indexed_nodes == indexed_nodes(inner, 1)
    IN  <<origin>> \o even_indexed_nodes \o odd_indexed_nodes \o <<destination>>

(***************************************************************************)
(* SpecNaive: main.py builds the naive route of the loaded registry and    *)
(* then evaluates and validates it.                                        *)
(***************************************************************************)
InitNaive ==
    /\ nodes \in FoldedRegistries \cup BinaryRegistries
    /\ respect_even_to_odd_travel_constraint = TRUE
    /\ respect_odd_to_even_travel_constraint = TRUE
    /\ l_cache = <<>>
    /\ route = <<>>
    /\ call = NoCall
    /\ ret = NoReturn
    /\ seed_routes = <<>>
    /\ optimiser = Idle
    /\ log = <<>>

\* naive_route = naive_sequencer.optimise()
NaiveSequencerOptimise ==
    /\ call.op = "none"
    /\ call' = [op |-> "NaiveSequencer.optimise", args |-> <<>>]
    /\ route' = NaiveSequencer_optimise(nodes)
    /\ ret' = Returned(route')
    /\ UNCHANGED <<nodes, respect_even_to_odd_travel_constraint,
                   respect_odd_to_even_travel_constraint, l_cache>>
    /\ UNCHANGED <<seed_routes, optimiser, log>>

\* the objective value is logged, then route_eval.is_valid_route(route=naive_route)
NaiveRouteIsValid ==
    /\ call.op = "NaiveSequencer.optimise"
    /\ call' = [op |-> "is_valid_route", args |-> <<>>]
    /\ l_cache' = <<cached_l_value(nodes, l_cache)>>
    /\ ret' = Returned(is_valid_route(nodes, route))
    /\ UNCHANGED <<nodes, respect_even_to_odd_travel_constraint,
                   respect_odd_to_even_travel_constraint, route>>
    /\ UNCHANGED <<seed_routes, optimiser, log>>

NextNaive ==
    \/ NaiveSequencerOptimise
    \/ NaiveRouteIsValid

SpecNaive == InitNaive /\ [][NextNaive]_vars

(***************************************************************************)
(* Claims about the weight L of the objective.                             *)
(***************************************************************************)
\* max edge - min edge of a route of at least two points
Spread(r) == SeqMax(distances_of(r)) - SeqMin(distances_of(r))

\* C21: when the evaluated route is accepted by is_valid_route, every accepted
\* route over the same registry with a larger spread (max edge - min edge) has
\* a larger objective, whatever the total distances are.
C21_SmallerSpreadSmallerObjective ==
    (call.op = "calculate_objective_value" /\ ~ret.raised /\ is_valid_route(nodes, route)) =>
        \A r2 \in PermRoutes(nodes) :
            (is_valid_route(nodes, r2) /\ Spread(route) < Spread(r2)) =>
                ret.value < Objective(r2)

(***************************************************************************)
(* Further claims about the improvement searches.                          *)
(***************************************************************************)
\* the shortest route the operator of the current call changes
MinRouteLength ==
    IF call.op \in TwoOptOps THEN TWO_OPT_MIN_ROUTE_LENGTH ELSE THREE_OPT_MIN_ROUTE_LENGTH

\* C22: apply_best_improvement and apply_first_improvement of TwoOptSwap and
\* ThreeOptSwap never raise, whatever the input route, and for a route shorter
\* than the operator's minimum length (routes of 0 or 1 points included) they
\* return a route with the input's sequence.
C22_SearchNeverRaises ==
    (call.op \in BestOps \cup FirstOps) =>
        /\ ~ret.raised
        /\ Len(route) < MinRouteLength => ret.value = route

(***************************************************************************)
(* Claims about apply with randomly drawn parameters.                      *)
(***************************************************************************)
OmittedOps == {"TwoOptSwap.apply(route)", "ThreeOptSwap.apply(route)"}

\* C23: two operators constructed with the same rnd_seed that are each asked
\* for apply(route) with omitted parameters on equal input routes return equal
\* routes.
C23_SameSeedSameOutput ==
    (call.op \in OmittedOps) => ret.value.first = ret.value.second

\* how often e occurs in s
Occurrences(s, e) == Cardinality({ k \in 1..Len(s) : s[k] = e })

\* out holds the points of inp, each as often, and starts and ends as inp does
PermutationKeepingEnds(inp, out) ==
    /\ Len(out) = Len(inp)
    /\ \A k \in 1..Len(inp) : Occurrences(out, inp[k]) = Occurrences(inp, inp[k])
    /\ Len(inp) >= 1 => (out[1] = inp[1] /\ out[Len(out)] = inp[Len(inp)])

\* the point before the last one stays where it is
KeepsLastIntermediate(inp, out) ==
    Len(inp) >= 2 => out[Len(inp) - 1] = inp[Len(inp) - 1]

\* C29: TwoOptSwap.apply and ThreeOptSwap.apply, with any explicit parameters
\* or with drawn ones, return a permutation of the input route with the same
\* first and last point; ThreeOptSwap.apply also keeps the point at position
\* len-2; apply with drawn parameters never raises.
C29_ApplyPermutesBetweenDepots ==
    /\ (call.op \in {"TwoOptSwap.apply", "ThreeOptSwap.apply"}) =>
          /\ ~ret.raised
          /\ PermutationKeepingEnds(call.args.route, ret.value.sequence)
          /\ call.op = "ThreeOptSwap.apply" =>
                KeepsLastIntermediate(call.args.route, ret.value.sequence)
    /\ (call.op \in OmittedOps) =>
          \A run \in {ret.value.first, ret.value.second} :
              /\ ~run.raised
              /\ PermutationKeepingEnds(call.args.route, run.value.sequence)
              /\ call.op = "ThreeOptSwap.apply(route)" =>
                    KeepsLastIntermediate(call.args.route, run.value.sequence)

\* ThreeOptSwap.apply drew its parameters on a route of at least 7 points and
\* moved the point at position len-3
C29_Witness ==
    /\ call.op = "ThreeOptSwap.apply(route)"
    /\ Len(route) >= 7
    /\ ~ret.value.first.raised
    /\ ret.value.first.value.sequence[Len(route) - 2] # route[Len(route) - 2]
    /\ ret.value.first.value.sequence # ret.value.second.value.sequence

(***************************************************************************)
(* Claims about EdgeManager.neighbors.                                     *)
(***************************************************************************)
KnownPoint == call.args.node_id \in {nodes[k].id : k \in 1..Len(nodes)}
QueryPoint == CHOOSE m \in {nodes[k] : k \in 1..Len(nodes)} : m.id = call.args.node_id
DistanceFromQuery(s) == [k \in 1..Len(s) |-> get_distance(QueryPoint, s[k])]

\* what the same call returns when max_neighbors is left out
Untruncated ==
    neighbors(nodes, respect_even_to_odd_travel_constraint,
              respect_odd_to_even_travel_constraint, call.args.node_id,
              call.args.candidates, Omitted, call.args.sort_by_distance)

\* C24: with sort_by_distance=true the distances from the query point to the
\* returned points are non-decreasing along the returned list, and with
\* max_neighbors = m the list is the first m entries (all, if fewer) of the
\* sorted list the call returns without max_neighbors, so no point left out is
\* closer than a point returned.
C24_SortedNeighborsPrefix ==
    (call.op = "neighbors" /\ call.args.sort_by_distance /\ KnownPoint) =>
        LET d == DistanceFromQuery(ret.value)
            full == Untruncated
            rest == SubSeq(full, Len(ret.value) + 1, Len(full))
        IN  /\ \A k \in 1..(Len(d) - 1) : d[k] <= d[k + 1]
            /\ ~call.args.max_neighbors.is_none =>
                  /\ Len(ret.value) = IF call.args.max_neighbors.value < Len(full)
                                        THEN call.args.max_neighbors.value ELSE Len(full)
                  /\ ret.value = SubSeq(full, 1, Len(ret.value))
                  /\ \A k \in 1..Len(d) : \A j \in 1..Len(rest) :
                        d[k] <= get_distance(QueryPoint, rest[j])

\* a sorted listing over all points, cut to two, where sorting changed the
\* order and a farther point was left out
C24_Witness ==
    /\ call.op = "neighbors"
    /\ call.args.sort_by_distance
    /\ KnownPoint
    /\ call.args.candidates.is_none
    /\ ~call.args.max_neighbors.is_none
    /\ Len(ret.value) = 2
    /\ Len(Untruncated) > 2
    /\ get_distance(QueryPoint, ret.value[2]) < get_distance(QueryPoint, Untruncated[Len(Untruncated)])
    /\ ret.value # SubSeq(neighbors(nodes, respect_even_to_odd_travel_constraint,
                                    respect_odd_to_even_travel_constraint, call.args.node_id,
                                    Omitted, Omitted, FALSE), 1, 2)

\* C25: neighbors returns an empty list for an unknown point; otherwise every
\* returned point differs from the query point, is permitted by is_edge_valid
\* from the query point and, when a candidate list was supplied, is one of its
\* members; at most max_neighbors points are returned; a supplied empty
\* candidate list gives an empty result.
C25_NeighborsFromCandidates ==
    (call.op = "neighbors") =>
        /\ ~KnownPoint => ret.value = <<>>
        /\ KnownPoint =>
              /\ \A k \in 1..Len(ret.value) :
                    /\ ret.value[k] # QueryPoint
                    /\ is_edge_valid(nodes, respect_even_to_odd_travel_constraint,
                                     respect_odd_to_even_travel_constraint,
                                     QueryPoint, ret.value[k])
                    /\ ~call.args.candidates.is_none =>
                          \E j \in 1..Len(call.args.candidates.value) :
                              call.args.candidates.value[j] = ret.value[k]
              /\ ~call.args.max_neighbors.is_none =>
                    Len(ret.value) <= call.args.max_neighbors.value
              /\ (~call.args.candidates.is_none /\ call.args.candidates.value = <<>>) =>
                    ret.value = <<>>

(***************************************************************************)
(* Claims about the reference bounds.                                      *)
(***************************************************************************)
\* C26: the value calculate_lower_bound returns for the registry is less than
\* or equal to the objective of every route over the registry that
\* is_valid_route accepts.
C26_LowerBoundBelowObjective ==
    (call.op = "calculate_lower_bound" /\ is_valid_route(nodes, route)) =>
        ret.value <= Objective(route)

(***************************************************************************)
(* Claims about the course of optimise.                                    *)
(***************************************************************************)
\* the objective values of the working route that on_iteration was given, in
\* log order
RECURSIVE ReportedBestValues(_)
ReportedBestValues(k) ==
    IF k = 0 THEN <<>>
    ELSE IF log[k].event = "on_iteration"
      THEN Append(ReportedBestValues(k - 1), log[k].best_value)
    ELSE ReportedBestValues(k - 1)

\* C27: from one iteration of optimise to the next the objective of the
\* working route never increases, and the objective of the returned route is
\* less than or equal to the objective of every seed route that was added.
C27_WorkingObjectiveNeverIncreases ==
    /\ [][(optimiser.pc = "loop" /\ optimiser'.pc = "loop") =>
            /\ optimiser'.route_value <= optimiser.route_value
            /\ Objective(optimiser'.route) <= Objective(optimiser.route)]_vars
    /\ [](LET best == ReportedBestValues(Len(log))
          IN  /\ \A k \in 1..(Len(best) - 1) : best[k + 1] <= best[k]
              /\ (optimiser.pc = "done" /\ ~ret.raised) =>
                    \A k \in 1..Len(seed_routes) :
                        Objective(ret.value[1]) <= Objective(seed_routes[k]))

\* optimise returned a route better than each of its three seeds, which are
\* not all equally good, after improving twice
C27_Witness ==
    /\ optimiser.pc = "done"
    /\ ~ret.raised
    /\ Len(seed_routes) = 3
    /\ Objective(seed_routes[1]) > Objective(seed_routes[2])
    /\ \A k \in 1..3 : Objective(ret.value[1]) < Objective(seed_routes[k])
    /\ Cardinality(Calls("save_route")) >= 2

\* the four improvement searches
SearchOps ==
    {"TwoOptSwap.apply_best_improvement", "TwoOptSwap.apply_first_improvement",
     "ThreeOptSwap.apply_best_improvement", "ThreeOptSwap.apply_first_improvement"}

\* C28: with only_valid = true each improvement search of TwoOptSwap and
\* ThreeOptSwap returns a route is_valid_route accepts whenever it accepts the
\* input; so when the seed optimise selected is valid, the working route is
\* valid after every iteration and the returned route is valid, while an
\* invalid selected seed is returned as it is when nothing improved on it.
C28_ValidityPreserved ==
    /\ (call.op \in SearchOps /\ call.args[1] /\ is_valid_route(nodes, route)) =>
            /\ ~ret.raised
            /\ is_valid_route(nodes, ret.value)
    /\ (optimiser.pc \in {"loop", "done"} /\ is_valid_route(nodes, seed_routes[1])) =>
            /\ is_valid_route(nodes, optimiser.route)
            /\ \A k \in 1..Len(log) :
                   log[k].event = "save_route" => is_valid_route(nodes, log[k].route)
            /\ optimiser.pc = "done" => is_valid_route(nodes, ret.value[1])
    /\ (/\ optimiser.pc = "done"
        /\ ~is_valid_route(nodes, seed_routes[1])
        /\ Calls("save_route") = {}) =>
            ret.value = <<seed_routes[1]>>

\* a search with only_valid = true returned a valid route other than its valid
\* input, or optimise returned a valid route other than its valid seed
C28_Witness ==
    \/ /\ call.op \in SearchOps
       /\ call.args[1]
       /\ is_valid_route(nodes, route)
       /\ ret.value # route
       /\ is_valid_route(nodes, ret.value)
    \/ /\ optimiser.pc = "done"
       /\ is_valid_route(nodes, seed_routes[1])
       /\ ret.value # <<seed_routes[1]>>
       /\ is_valid_route(nodes, ret.value[1])

\* C30: for every registry with dense ids 0..n+1, n >= 1, listed in ascending
\* id order, is_valid_route accepts the route NaiveSequencer.optimise builds
\* (origin, odd ids descending, even ids ascending, destination).
C30_NaiveRouteValid ==
    (call.op = "is_valid_route" /\ Len(nodes) >= 3) => ret.value

====
